---- MODULE Spec2Model ----
(***************************************************************************)
(* The PII detection-and-redaction pipeline of                             *)
(* results/pii_detection/src/pii_redaction_agent.py.                       *)
(*                                                                         *)
(* A text is a sequence of one-character strings; offsets are Python       *)
(* offsets (0-based, half-open).  A confidence c stands for the number     *)
(* c / 10000, so 0.8 is 8000.                                              *)
(***************************************************************************)
EXTENDS Integers, Sequences, FiniteSets, TLC

VARIABLES
    environ,          \* os.environ: the variables that are set, and their values
    agent,            \* the attributes __init__ has set (<<>> while unconstructed)
    pc,               \* the statement of process_document that runs next
    poll_i,           \* analyze_document: the loop variable i of the polling loop
    status,           \* analyze_document: status, of the last poll ("none" before it)
    polls,            \* analyze_document: the GET requests this call has issued
    sleeps,           \* analyze_document: the time.sleep(2) calls this call has made
    analysis_result,  \* process_document: analysis_result (<<>> while unassigned)
    text_content,     \* process_document: text_content
    ai_content,       \* detect_pii_with_ai: the content of the response (<<>> while none)
    ai_entities,      \* process_document: ai_entities
    regex_entities,   \* process_document: regex_entities
    all_entities,     \* process_document: all_entities
    unique_entities,  \* process_document: unique_entities
    merge_k,          \* process_document: the index in all_entities of the next candidate
    redacted_text,    \* process_document: redacted_text
    report,           \* process_document: report (<<>> while unassigned)
    redacted_file,    \* the contents written to output_file, one per write
    report_file,      \* the contents written to report_file, one per write
    result,           \* the RedactionResult returned (<<>> while none)
    error,            \* the exception that left process_document ("" while none)
    requests_sent     \* the POST requests issued: submit and chat completion

vars == <<environ, agent, pc, poll_i, status, polls, sleeps, analysis_result, text_content, ai_content, ai_entities,
          regex_entities, all_entities, unique_entities, merge_k, redacted_text,
          report, redacted_file, report_file, result, error, requests_sent>>

(***************************************************************************)
(* __init__ and load_dotenv                                                *)
(***************************************************************************)
\* The five variables __init__ requires.
RequiredNames ==
    {"AZURE_DOCINTEL_ENDPOINT", "AZURE_DOCINTEL_KEY", "AZURE_OPENAI_ENDPOINT",
     "AZURE_OPENAI_KEY", "AZURE_OPENAI_DEPLOYMENT"}

\* os.environ.get(name, "")
EnvironGet(env, name) == IF name \in DOMAIN env THEN env[name] ELSE <<>>

\* s.rstrip(c)
RECURSIVE RStrip(_, _)
RStrip(s, c) ==
    IF s # <<>> /\ s[Len(s)] = c THEN RStrip(SubSeq(s, 1, Len(s) - 1), c) ELSE s

\* s.lstrip(c)
RECURSIVE LStrip(_, _)
LStrip(s, c) == IF s # <<>> /\ s[1] = c THEN LStrip(Tail(s), c) ELSE s

\* s.strip(c); the lines of a .env file have the blank as their only white
\* space, so s.strip() is StripChar(s, " ").
StripChar(s, c) == LStrip(RStrip(s, c), c)

\* The position of the first "=" of line, 0 when it has none.
FirstEquals(line) ==
    IF \E j \in 1..Len(line) : line[j] = "="
    THEN CHOOSE j \in 1..Len(line) :
            line[j] = "=" /\ \A i \in 1..(j - 1) : line[i] # "="
    ELSE 0

\* The body of the loop of load_dotenv for one raw line.  A variable name is
\* one element of the line; k is the stripped text before the first "=".
LoadLine(env, raw) ==
    LET line == StripChar(raw, " ")
        eq   == FirstEquals(line)
        k    == StripChar(SubSeq(line, 1, eq - 1), " ")
        v    == StripChar(StripChar(StripChar(SubSeq(line, eq + 1, Len(line)), " "),
                                    "'"), "\"")
    IN  IF line = <<>> \/ line[1] = "#" THEN env
        ELSE IF eq = 0 THEN env
        ELSE IF Len(k) = 1 /\ v # <<>>
             THEN [n \in DOMAIN env \cup {k[1]} |-> IF n = k[1] THEN v ELSE env[n]]
             ELSE env

\* load_dotenv for a file that was found, from its j-th line on.
RECURSIVE load_dotenv(_, _, _)
load_dotenv(env, lines, j) ==
    IF j > Len(lines) THEN env ELSE load_dotenv(LoadLine(env, lines[j]), lines, j + 1)

\* The attributes __init__ sets from the environment.
AgentOf(env) ==
    [docintel_endpoint |-> RStrip(EnvironGet(env, "AZURE_DOCINTEL_ENDPOINT"), "/"),
     docintel_key      |-> EnvironGet(env, "AZURE_DOCINTEL_KEY"),
     aoai_endpoint     |-> RStrip(EnvironGet(env, "AZURE_OPENAI_ENDPOINT"), "/"),
     aoai_key          |-> EnvironGet(env, "AZURE_OPENAI_KEY"),
     aoai_deployment   |-> EnvironGet(env, "AZURE_OPENAI_DEPLOYMENT")]

\* The condition of the first assert.
DocintelConfigured(a) == a.docintel_endpoint # <<>> /\ a.docintel_key # <<>>

\* The second assert without the deployment.
AoaiConfiguredWithoutDeployment(a) == a.aoai_endpoint # <<>> /\ a.aoai_key # <<>>

\* The condition of the second assert.
AoaiConfigured(a) ==
    a.aoai_endpoint # <<>> /\ a.aoai_key # <<>> /\ a.aoai_deployment # <<>>

\* An environment with which the agent is constructed.
ConfiguredEnviron ==
    [n \in RequiredNames |->
        IF n \in {"AZURE_DOCINTEL_ENDPOINT", "AZURE_OPENAI_ENDPOINT"}
        THEN <<"h", "/">> ELSE <<"k">>]

(***************************************************************************)
(* Characters and the character classes of Python's re module.             *)
(***************************************************************************)
Upper ==
    {"A", "B", "C", "D", "E", "F", "G", "H", "I", "J", "K", "L", "M", "N", "O", "P",
     "Q", "R", "S", "T", "U", "V", "W", "X", "Y", "Z"}

Lower ==
    {"a", "b", "c", "d", "e", "f", "g", "h", "i", "j", "k", "l", "m", "n", "o", "p",
     "q", "r", "s", "t", "u", "v", "w", "x", "y", "z"}

\* [0-9]
AsciiDigit == {"0", "1", "2", "3", "4", "5", "6", "7", "8", "9"}

\* One decimal digit outside ASCII (ARABIC-INDIC DIGIT THREE), written as one
\* character: \d matches it in a str pattern, [0-9] does not.
ArabicThree == "U+0663"

\* One letter outside ASCII (LATIN SMALL LETTER LONG S): under re.IGNORECASE
\* the ranges [A-Z] and [a-z] match it.
LongS == "U+017F"

\* \d
UnicodeDigit == AsciiDigit \cup {ArabicThree}

\* [A-Za-z] under re.IGNORECASE
Letter == Upper \cup Lower \cup {LongS}

\* \w
WordChar == Letter \cup UnicodeDigit \cup {"_"}

\* \s
Space == {" ", "\n", "\t"}

(***************************************************************************)
(* Regular expressions: a character class, the assertion \b, a sequence,   *)
(* and a greedy repetition {lo,hi}.                                        *)
(***************************************************************************)
Cls(S) == [t |-> "cls", s |-> S]

Lit(c) == Cls({c})

WordBoundary == [t |-> "wb"]

Concat(xs) == [t |-> "seq", xs |-> xs]

Repeat(x, lo, hi) == [t |-> "rep", x |-> x, lo |-> lo, hi |-> hi]

\* The upper limit of + and {n,}: more repetitions than any text has characters.
Unbounded == 1000000

Optional(x) == Repeat(x, 0, 1)

IsWordAt(text, i) == i >= 0 /\ i < Len(text) /\ text[i + 1] \in WordChar

\* \b at offset i: exactly one of the characters before and after i is a word
\* character.
AtWordBoundary(text, i) == IsWordAt(text, i - 1) # IsWordAt(text, i)

RECURSIVE Flatten(_)
Flatten(ss) == IF ss = <<>> THEN <<>> ELSE Head(ss) \o Flatten(Tail(ss))

\* The offsets at which a match of node n that starts at offset i can end, in
\* the order in which the backtracking matcher tries them.
RECURSIVE MatchEnds(_, _, _)
RECURSIVE SeqEnds(_, _, _, _)
RECURSIVE RepEnds(_, _, _, _)
MatchEnds(n, text, i) ==
    CASE n.t = "cls" -> IF i < Len(text) /\ text[i + 1] \in n.s THEN <<i + 1>> ELSE <<>>
      [] n.t = "wb"  -> IF AtWordBoundary(text, i) THEN <<i>> ELSE <<>>
      [] n.t = "seq" -> SeqEnds(n.xs, 1, text, i)
      [] n.t = "rep" -> RepEnds(n, 0, text, i)

SeqEnds(xs, k, text, i) ==
    IF k > Len(xs) THEN <<i>>
    ELSE LET es == MatchEnds(xs[k], text, i)
         IN  Flatten([j \in 1..Len(es) |-> SeqEnds(xs, k + 1, text, es[j])])

RepEnds(n, count, text, i) ==
    LET es   == IF count < n.hi THEN MatchEnds(n.x, text, i) ELSE <<>>
        more == Flatten([j \in 1..Len(es) |->
                    IF es[j] > i THEN RepEnds(n, count + 1, text, es[j]) ELSE <<>>])
        stop == IF count >= n.lo THEN <<i>> ELSE <<>>
    IN  more \o stop

\* re.finditer: the non-overlapping matches from offset pos on, left to right;
\* each match is the first one the matcher finds at the leftmost offset.
RECURSIVE finditer(_, _, _)
finditer(pattern, text, pos) ==
    IF pos > Len(text) THEN <<>>
    ELSE LET es == MatchEnds(pattern, text, pos)
         IN  IF es = <<>> THEN finditer(pattern, text, pos + 1)
             ELSE <<[start |-> pos, end |-> es[1]]>>
                  \o finditer(pattern, text, IF es[1] = pos THEN pos + 1 ELSE es[1])

(***************************************************************************)
(* The five patterns of apply_regex_patterns.                              *)
(***************************************************************************)
\* \b\d{3}-?\d{2}-?\d{4}\b
SSNPattern ==
    Concat(<<WordBoundary, Repeat(Cls(UnicodeDigit), 3, 3), Optional(Lit("-")),
             Repeat(Cls(UnicodeDigit), 2, 2), Optional(Lit("-")),
             Repeat(Cls(UnicodeDigit), 4, 4), WordBoundary>>)

\* \b[A-Za-z0-9._%+-]+@[A-Za-z0-9.-]+\.[A-Z|a-z]{2,}\b
EmailPattern ==
    Concat(<<WordBoundary,
             Repeat(Cls(Letter \cup AsciiDigit \cup {".", "_", "%", "+", "-"}), 1, Unbounded),
             Lit("@"),
             Repeat(Cls(Letter \cup AsciiDigit \cup {".", "-"}), 1, Unbounded),
             Lit("."),
             Repeat(Cls(Letter \cup {"|"}), 2, Unbounded),
             WordBoundary>>)

\* \b(?:\+?1[-.\s]?)?\(?[0-9]{3}\)?[-.\s]?[0-9]{3}[-.\s]?[0-9]{4}\b
PhonePattern ==
    Concat(<<WordBoundary,
             Optional(Concat(<<Optional(Lit("+")), Lit("1"),
                               Optional(Cls({"-", "."} \cup Space))>>)),
             Optional(Lit("(")), Repeat(Cls(AsciiDigit), 3, 3), Optional(Lit(")")),
             Optional(Cls({"-", "."} \cup Space)), Repeat(Cls(AsciiDigit), 3, 3),
             Optional(Cls({"-", "."} \cup Space)), Repeat(Cls(AsciiDigit), 4, 4),
             WordBoundary>>)

\* \b(?:\d{4}[-\s]?){3}\d{4}\b
CreditCardPattern ==
    Concat(<<WordBoundary,
             Repeat(Concat(<<Repeat(Cls(UnicodeDigit), 4, 4),
                             Optional(Cls({"-"} \cup Space))>>), 3, 3),
             Repeat(Cls(UnicodeDigit), 4, 4), WordBoundary>>)

\* The characters an unescaped . matches: every character but the newline.
AnyChar ==
    (WordChar \cup Space \cup {"-", ".", "@", "+", "%", "|", "(", ")", "[", "]", "*"}) \ {"\n"}

\* The IP pattern with its dots left unescaped: \b(?:[0-9]{1,3}.){3}[0-9]{1,3}\b
IPAddressPatternUnescaped ==
    Concat(<<WordBoundary,
             Repeat(Concat(<<Repeat(Cls(AsciiDigit), 1, 3), Cls(AnyChar)>>), 3, 3),
             Repeat(Cls(AsciiDigit), 1, 3), WordBoundary>>)

\* \b(?:[0-9]{1,3}\.){3}[0-9]{1,3}\b
IPAddressPattern ==
    Concat(<<WordBoundary,
             Repeat(Concat(<<Repeat(Cls(AsciiDigit), 1, 3), Lit(".")>>), 3, 3),
             Repeat(Cls(AsciiDigit), 1, 3), WordBoundary>>)

\* The patterns dict, in insertion order.
patterns ==
    <<[pii_type |-> "SSN",         pattern |-> SSNPattern],
      [pii_type |-> "EMAIL",       pattern |-> EmailPattern],
      [pii_type |-> "PHONE",       pattern |-> PhonePattern],
      [pii_type |-> "CREDIT_CARD", pattern |-> CreditCardPattern],
      [pii_type |-> "IP_ADDRESS",  pattern |-> IPAddressPattern]>>

\* The confidence given to every regex match: 0.8.
RegexConfidence == 8000

\* PIIEntity(...): page_number and bounding_box keep their default None and
\* are never read.
PIIEntity(text, pii_type, confidence, start_position, end_position) ==
    [text |-> text, pii_type |-> pii_type, confidence |-> confidence,
     start_position |-> start_position, end_position |-> end_position]

\* The entities of one pattern with confidence=1.0 in place of 0.8.
PatternEntitiesFullConfidence(p, text) ==
    LET ms == finditer(p.pattern, text, 0)
    IN  [j \in 1..Len(ms) |->
            PIIEntity(SubSeq(text, ms[j].start + 1, ms[j].end), p.pii_type,
                      10000, ms[j].start, ms[j].end)]

\* The entities of one pattern, one per match.
PatternEntities(p, text) ==
    LET ms == finditer(p.pattern, text, 0)
    IN  [j \in 1..Len(ms) |->
            PIIEntity(SubSeq(text, ms[j].start + 1, ms[j].end), p.pii_type,
                      RegexConfidence, ms[j].start, ms[j].end)]

apply_regex_patterns(text) ==
    Flatten([k \in 1..Len(patterns) |-> PatternEntities(patterns[k], text)])

(***************************************************************************)
(* PIIType: a member is written by its name; PIITypeValue is its value.    *)
(***************************************************************************)
PIITypeNames ==
    <<"SSN", "EMAIL", "PHONE", "ADDRESS", "CREDIT_CARD", "NAME", "DATE_OF_BIRTH",
      "DRIVER_LICENSE", "PASSPORT", "BANK_ACCOUNT", "IP_ADDRESS", "URL">>

PIIType == {PIITypeNames[k] : k \in 1..Len(PIITypeNames)}

PIITypeValue ==
    [SSN            |-> "Social Security Number",
     EMAIL          |-> "Email Address",
     PHONE          |-> "Phone Number",
     ADDRESS        |-> "Physical Address",
     CREDIT_CARD    |-> "Credit Card Number",
     NAME           |-> "Person Name",
     DATE_OF_BIRTH  |-> "Date of Birth",
     DRIVER_LICENSE |-> "Driver License",
     PASSPORT       |-> "Passport Number",
     BANK_ACCOUNT   |-> "Bank Account Number",
     IP_ADDRESS     |-> "IP Address",
     URL            |-> "URL"]

\* The characters of entity.pii_type.name.
PIITypeNameChars ==
    [SSN            |-> <<"S", "S", "N">>,
     EMAIL          |-> <<"E", "M", "A", "I", "L">>,
     PHONE          |-> <<"P", "H", "O", "N", "E">>,
     ADDRESS        |-> <<"A", "D", "D", "R", "E", "S", "S">>,
     CREDIT_CARD    |-> <<"C", "R", "E", "D", "I", "T", "_", "C", "A", "R", "D">>,
     NAME           |-> <<"N", "A", "M", "E">>,
     DATE_OF_BIRTH  |-> <<"D", "A", "T", "E", "_", "O", "F", "_", "B", "I", "R", "T", "H">>,
     DRIVER_LICENSE |-> <<"D", "R", "I", "V", "E", "R", "_", "L", "I", "C", "E", "N", "S", "E">>,
     PASSPORT       |-> <<"P", "A", "S", "S", "P", "O", "R", "T">>,
     BANK_ACCOUNT   |-> <<"B", "A", "N", "K", "_", "A", "C", "C", "O", "U", "N", "T">>,
     IP_ADDRESS     |-> <<"I", "P", "_", "A", "D", "D", "R", "E", "S", "S">>,
     URL            |-> <<"U", "R", "L">>]

\* PIIType(value), the lookup of a member by value: the member, or "ValueError"
\* when no member has that value.
PIITypeLookup(value) ==
    IF \E m \in PIIType : PIITypeValue[m] = value
    THEN CHOOSE m \in PIIType : PIITypeValue[m] = value
    ELSE "ValueError"

(***************************************************************************)
(* create_redacted_text                                                    *)
(***************************************************************************)
Min(a, b) == IF a < b THEN a ELSE b

Max(a, b) == IF a > b THEN a ELSE b

\* The bound a slice index k stands for in a sequence of length n.
SliceIndex(k, n) == IF k < 0 THEN Max(n + k, 0) ELSE Min(k, n)

\* s[:k]
SliceTo(s, k) == SubSeq(s, 1, SliceIndex(k, Len(s)))

\* s[k:]
SliceFrom(s, k) == SubSeq(s, SliceIndex(k, Len(s)) + 1, Len(s))

\* One step of a descending sort that is not stable: e goes ahead of the
\* elements with the same start_position.
InsertByStartDescUnstable(sorted, e) ==
    LET ahead == Cardinality({j \in 1..Len(sorted) :
                                 sorted[j].start_position > e.start_position})
    IN  SubSeq(sorted, 1, ahead) \o <<e>> \o SubSeq(sorted, ahead + 1, Len(sorted))

\* One step of the stable descending sort: e goes behind every element whose
\* start_position is not smaller.
InsertByStartDesc(sorted, e) ==
    LET ahead == Cardinality({j \in 1..Len(sorted) :
                                 sorted[j].start_position >= e.start_position})
    IN  SubSeq(sorted, 1, ahead) \o <<e>> \o SubSeq(sorted, ahead + 1, Len(sorted))

\* The sort without reverse=True: ascending start_position, stable.
RECURSIVE SortedByStartAsc(_)
SortedByStartAsc(es) ==
    IF es = <<>> THEN <<>>
    ELSE LET sorted == SortedByStartAsc(SubSeq(es, 1, Len(es) - 1))
             e      == es[Len(es)]
             ahead  == Cardinality({j \in 1..Len(sorted) :
                                       sorted[j].start_position <= e.start_position})
         IN  SubSeq(sorted, 1, ahead) \o <<e>> \o SubSeq(sorted, ahead + 1, Len(sorted))

\* sorted(pii_entities, key=lambda x: x.start_position, reverse=True)
RECURSIVE SortedByStartDesc(_)
SortedByStartDesc(es) ==
    IF es = <<>> THEN <<>>
    ELSE InsertByStartDesc(SortedByStartDesc(SubSeq(es, 1, Len(es) - 1)), es[Len(es)])

\* The placeholder without its brackets: f"REDACTED-{entity.pii_type.name}"
RedactionNoBrackets(entity) ==
    <<"R", "E", "D", "A", "C", "T", "E", "D", "-">> \o PIITypeNameChars[entity.pii_type]

\* f"[REDACTED-{entity.pii_type.name}]"
Redaction(entity) ==
    <<"[", "R", "E", "D", "A", "C", "T", "E", "D", "-">>
        \o PIITypeNameChars[entity.pii_type] \o <<"]">>

\* redacted_text[:start_position] + redaction + redacted_text[end_position:]
Splice(redacted, entity, redaction) ==
    SliceTo(redacted, entity.start_position) \o redaction
        \o SliceFrom(redacted, entity.end_position)

\* The loop over sorted_entities, from its k-th element on.
RECURSIVE SpliceAll(_, _, _, _)
SpliceAll(redacted, sorted_entities, redactions, k) ==
    IF k > Len(sorted_entities) THEN redacted
    ELSE SpliceAll(Splice(redacted, sorted_entities[k], redactions[k]),
                   sorted_entities, redactions, k + 1)

\* create_redacted_text without the sort: the splices in the order of the
\* list.
create_redacted_text_unsorted(original_text, pii_entities) ==
    SpliceAll(original_text, pii_entities,
              [k \in 1..Len(pii_entities) |-> Redaction(pii_entities[k])], 1)

create_redacted_text(original_text, pii_entities) ==
    LET sorted_entities == SortedByStartDesc(pii_entities)
    IN  SpliceAll(original_text, sorted_entities,
                  [k \in 1..Len(sorted_entities) |-> Redaction(sorted_entities[k])], 1)

(***************************************************************************)
(* generate_redaction_report                                               *)
(***************************************************************************)
DigitChars == <<"0", "1", "2", "3", "4", "5", "6", "7", "8", "9">>

\* str(n) for a natural number n
RECURSIVE NatToStr(_)
NatToStr(n) ==
    IF n < 10 THEN <<DigitChars[n + 1]>>
    ELSE NatToStr(n \div 10) \o <<DigitChars[(n % 10) + 1]>>

\* str(n) for an integer n
IntToStr(n) == IF n < 0 THEN <<"-">> \o NatToStr(0 - n) ELSE NatToStr(n)

RECURSIVE SumConfidence(_)
SumConfidence(es) ==
    IF es = <<>> THEN 0 ELSE es[1].confidence + SumConfidence(Tail(es))

\* The multiple of 0.001 below total / count: truncation instead of rounding.
Round3Truncated(total, count) == 10 * (total \div (10 * count))

\* The multiple of 0.001 nearest to total / count, for count > 0, a tie going
\* to the even multiple: round(x, 3) for a float x that holds the quotient
\* exactly.
Round3(total, count) ==
    LET unit == 10 * count
        q    == total \div unit
        r    == total % unit
    IN  IF 2 * r > unit \/ (2 * r = unit /\ q % 2 = 1) THEN 10 * (q + 1) ELSE 10 * q

\* total / count lies halfway between two multiples of 0.001.
IsTie(total, count) == 2 * (total % (10 * count)) = 10 * count

\* The floats hold every confidence, their sum and the quotient exactly: all
\* of them are multiples of 1/16.
ExactMean(pii_entities) ==
    /\ \A j \in 1..Len(pii_entities) : pii_entities[j].confidence % 625 = 0
    /\ SumConfidence(pii_entities) % (625 * Len(pii_entities)) = 0

\* The values of round(avg_confidence, 3).  avg_confidence is a float: when
\* the quotient of the decimal confidences is a tie the floats do not hold
\* exactly, the float lies on either side of it and round() goes to that side.
RoundedAverages(pii_entities) ==
    LET total == SumConfidence(pii_entities)
        count == Len(pii_entities)
    IN  IF count = 0 THEN {0}
        ELSE IF IsTie(total, count) /\ ~ExactMean(pii_entities)
             THEN {10 * (total \div (10 * count)), 10 * (total \div (10 * count)) + 10}
             ELSE {Round3(total, count)}

\* The text every entity of the report carries.
RedactedMarker == <<"*", "*", "*", "R", "E", "D", "A", "C", "T", "E", "D", "*", "*", "*">>

\* The element of the 'entities' list with the text of the entity in it.
ReportEntityWithText(entity) ==
    [text       |-> entity.text,
     type       |-> PIITypeValue[entity.pii_type],
     confidence |-> entity.confidence,
     position   |-> IntToStr(entity.start_position) \o <<"-">>
                        \o IntToStr(entity.end_position)]

\* One element of the report's 'entities' list.
ReportEntity(entity) ==
    [text       |-> RedactedMarker,
     type       |-> PIITypeValue[entity.pii_type],
     confidence |-> entity.confidence,
     position   |-> IntToStr(entity.start_position) \o <<"-">>
                        \o IntToStr(entity.end_position)]

\* The dict with a 'by_type' that marks the categories instead of counting
\* their entities.
RedactionReportMarking(pii_entities, average_confidence) ==
    LET present == {PIITypeValue[pii_entities[j].pii_type] : j \in 1..Len(pii_entities)}
        summary == [v \in present |-> 1]
        total_redactions == Len(pii_entities)
    IN  [total_redactions   |-> total_redactions,
         average_confidence |-> average_confidence,
         by_type            |-> summary,
         entities           |-> [j \in 1..Len(pii_entities) |-> ReportEntity(pii_entities[j])]]

\* The dict generate_redaction_report returns when round() gives
\* average_confidence.
RedactionReport(pii_entities, average_confidence) ==
    LET present == {PIITypeValue[pii_entities[j].pii_type] : j \in 1..Len(pii_entities)}
        summary == [v \in present |->
                       Cardinality({j \in 1..Len(pii_entities) :
                                       PIITypeValue[pii_entities[j].pii_type] = v})]
        total_redactions == Len(pii_entities)
    IN  [total_redactions   |-> total_redactions,
         average_confidence |-> average_confidence,
         by_type            |-> summary,
         entities           |-> [j \in 1..Len(pii_entities) |-> ReportEntity(pii_entities[j])]]

\* The dicts generate_redaction_report can return for pii_entities.
generate_redaction_report(pii_entities) ==
    {RedactionReport(pii_entities, a) : a \in RoundedAverages(pii_entities)}

(***************************************************************************)
(* The merger of process_document                                          *)
(***************************************************************************)
\* The duplicate threshold, in characters.
DuplicateThreshold == 5

Abs(n) == IF n < 0 THEN 0 - n ELSE n

\* The condition of tests/test_pii_text.py, which compares the starts only.
IsCloseToStartOnly(entity, existing) ==
    Abs(entity.start_position - existing.start_position) < DuplicateThreshold

\* The condition of the inner loop.
IsCloseTo(entity, existing) ==
    /\ Abs(entity.start_position - existing.start_position) < DuplicateThreshold
    /\ Abs(entity.end_position - existing.end_position) < DuplicateThreshold

\* is_duplicate with the category compared too: only an entity of the same
\* category makes a duplicate.
IsDuplicateSameType(entity, unique) ==
    \E j \in 1..Len(unique) :
        IsCloseTo(entity, unique[j]) /\ entity.pii_type = unique[j].pii_type

\* is_duplicate after the inner loop over unique
IsDuplicate(entity, unique) == \E j \in 1..Len(unique) : IsCloseTo(entity, unique[j])

\* One iteration of the outer loop with the candidate compared with the last
\* retained entity only.
MergeOneLastOnly(unique, entity) ==
    IF unique # <<>> /\ IsCloseTo(entity, unique[Len(unique)])
    THEN unique
    ELSE Append(unique, entity)

\* One iteration of the outer loop.
MergeOne(unique, entity) == IF IsDuplicate(entity, unique) THEN unique ELSE Append(unique, entity)

(***************************************************************************)
(* extract_text_content                                                    *)
(***************************************************************************)
\* "\n".join(parts)
RECURSIVE JoinLines(_)
JoinLines(parts) ==
    IF parts = <<>> THEN <<>>
    ELSE IF Len(parts) = 1 THEN parts[1]
    ELSE parts[1] \o <<"\n">> \o JoinLines(Tail(parts))

\* text.strip()
RECURSIVE Strip(_)
Strip(text) ==
    IF text = <<>> THEN <<>>
    ELSE IF text[1] \in Space THEN Strip(Tail(text))
    ELSE IF text[Len(text)] \in Space THEN Strip(SubSeq(text, 1, Len(text) - 1))
    ELSE text

\* The fallback loop over pages: text_content += page_text + "\n"
RECURSIVE PagesText(_)
PagesText(pages) ==
    IF pages = <<>> THEN <<>>
    ELSE JoinLines(pages[1]) \o <<"\n">> \o PagesText(Tail(pages))

\* analyze_result is the "analyzeResult" of the analysis: the contents of its
\* paragraphs and, per page, of its lines.
extract_text_content(analyze_result) ==
    IF analyze_result.paragraphs # <<>>
    THEN Strip(JoinLines(analyze_result.paragraphs))
    ELSE Strip(PagesText(analyze_result.pages))

(***************************************************************************)
(* detect_pii_with_ai: the content of the chat completion is a sequence of *)
(* tokens: the fence (three backquotes), the word json, white space, other *)
(* prose, the                                                              *)
(* text of one complete JSON value, or a piece of JSON text that is no     *)
(* complete value.                                                         *)
(***************************************************************************)
Fence == [k |-> "fence", v |-> <<>>]

JsonWord == [k |-> "json", v |-> <<>>]

WhiteSpace == [k |-> "ws", v |-> <<>>]

Prose == [k |-> "prose", v |-> <<>>]

Fragment == [k |-> "fragment", v |-> <<>>]

\* The text of the JSON value v.
JsonText(v) == [k |-> "value", v |-> <<v>>]

\* The text of the JSON value v in which a string holds the tokens inner (a
\* fence, say) is the head of the text up to that place inside the string,
\* the tokens inner, and the rest of the text.
ValueHead(v, inner) == [k |-> "head", v |-> <<v, inner>>]

ValueTail(v, inner) == [k |-> "tail", v |-> <<v, inner>>]

CutText(v, inner) == <<ValueHead(v, inner)>> \o inner \o <<ValueTail(v, inner)>>

\* The offsets (1-based) at which the fence followed by json occurs in content.
FenceJsonAt(content) ==
    {i \in 1..(Len(content) - 1) : content[i].k = "fence" /\ content[i + 1].k = "json"}

\* The offsets (1-based) at which the fence occurs in content.
FenceAt(content) == {i \in 1..Len(content) : content[i].k = "fence"}

SetMin(S) == CHOOSE x \in S : \A y \in S : x <= y

\* content.split(fence + "json")[1], for a content in which it occurs
SplitFenceJson1(content) ==
    LET first == SetMin(FenceJsonAt(content))
        later == {i \in FenceJsonAt(content) : i >= first + 2}
        stop  == IF later = {} THEN Len(content) + 1 ELSE SetMin(later)
    IN  SubSeq(content, first + 2, stop - 1)

\* content.split(fence)[1], for a content in which the fence occurs
SplitFence1(content) ==
    LET first == SetMin(FenceAt(content))
        later == {i \in FenceAt(content) : i > first}
        stop  == IF later = {} THEN Len(content) + 1 ELSE SetMin(later)
    IN  SubSeq(content, first + 1, stop - 1)

\* content.split(fence)[0]
SplitFence0(content) ==
    IF FenceAt(content) = {} THEN content
    ELSE SubSeq(content, 1, SetMin(FenceAt(content)) - 1)

\* ai_content.strip(), and the white space json.loads skips at both ends
RECURSIVE StripTokens(_)
StripTokens(content) ==
    IF content = <<>> THEN <<>>
    ELSE IF content[1].k = "ws" THEN StripTokens(Tail(content))
    ELSE IF content[Len(content)].k = "ws"
         THEN StripTokens(SubSeq(content, 1, Len(content) - 1))
    ELSE content

\* "Remove code block markers if present"
RemoveCodeBlockMarkers(content) ==
    IF FenceJsonAt(content) # {} THEN SplitFence0(SplitFenceJson1(content))
    ELSE IF FenceAt(content) # {} THEN SplitFence0(SplitFence1(content))
    ELSE content

\* json.loads(content): the value, or a JSONDecodeError when content is not the
\* text of exactly one JSON value.  A head without its tail ends inside a
\* string, a tail without its head starts inside one: neither is a value.
JsonLoads(content) ==
    LET body == StripTokens(content)
    IN  IF Len(body) = 1 /\ body[1].k = "value"
        THEN [exc |-> "", value |-> body[1].v[1]]
        ELSE IF /\ Len(body) >= 2
                /\ body[1].k = "head"
                /\ body = CutText(body[1].v[1], body[1].v[2])
        THEN [exc |-> "", value |-> body[1].v[1]]
        ELSE [exc |-> "JSONDecodeError", value |-> [k |-> "null", v |-> <<>>]]

\* The elements "for item in pii_data" visits: the items of a list, the keys
\* of a dict, the characters of a str.
IterItems(pii_data) ==
    CASE pii_data.k = "array"  -> pii_data.v
      [] pii_data.k = "object" ->
            [j \in 1..Cardinality(DOMAIN pii_data.v) |-> [k |-> "string", v |-> <<"k">>]]
      [] pii_data.k = "string" ->
            [j \in 1..Len(pii_data.v) |-> [k |-> "string", v |-> <<pii_data.v[j]>>]]
      [] OTHER -> <<>>

\* The loop "Convert to PIIEntity objects" from the k-th item on: the exception
\* that leaves it ("" when none) and the entities appended so far.
RECURSIVE ConvertItems(_, _, _)
ConvertItems(items, k, pii_entities) ==
    IF k > Len(items) THEN [exc |-> "", entities |-> pii_entities]
    ELSE LET item == items[k]
         IN  IF item.k # "object" THEN [exc |-> "TypeError", entities |-> pii_entities]
             ELSE IF "pii_type" \notin DOMAIN item.v
                  THEN [exc |-> "KeyError", entities |-> pii_entities]
             ELSE IF PIITypeLookup(item.v.pii_type) = "ValueError"
                  THEN ConvertItems(items, k + 1, pii_entities)
             ELSE IF ~({"text", "confidence", "start_position", "end_position"}
                          \subseteq DOMAIN item.v)
                  THEN [exc |-> "KeyError", entities |-> pii_entities]
             ELSE ConvertItems(items, k + 1,
                      Append(pii_entities,
                             PIIEntity(item.v.text, PIITypeLookup(item.v.pii_type),
                                       item.v.confidence, item.v.start_position,
                                       item.v.end_position)))

\* The try block without its except clause: a JSONDecodeError leaves it.
ParseAIContentNoExcept(content) ==
    LET loaded == JsonLoads(RemoveCodeBlockMarkers(StripTokens(content)))
    IN  IF loaded.exc = "JSONDecodeError" THEN [exc |-> "JSONDecodeError", entities |-> <<>>]
        ELSE IF loaded.value.k \in {"array", "object", "string"}
             THEN LET converted == ConvertItems(IterItems(loaded.value), 1, <<>>)
                  IN  IF converted.exc = "" THEN converted
                      ELSE [exc |-> converted.exc, entities |-> <<>>]
        ELSE [exc |-> "TypeError", entities |-> <<>>]

\* The try block of detect_pii_with_ai on the content of the response: the
\* exception it raises ("" when it returns) and the list it returns.
ParseAIContent(content) ==
    LET loaded == JsonLoads(RemoveCodeBlockMarkers(StripTokens(content)))
    IN  IF loaded.exc = "JSONDecodeError" THEN [exc |-> "", entities |-> <<>>]
        ELSE IF loaded.value.k \in {"array", "object", "string"}
             THEN LET converted == ConvertItems(IterItems(loaded.value), 1, <<>>)
                  IN  IF converted.exc = "" THEN converted
                      ELSE [exc |-> converted.exc, entities |-> <<>>]
        ELSE [exc |-> "TypeError", entities |-> <<>>]

(***************************************************************************)
(* The inputs of the model: the documents the analysis returns and the     *)
(* contents the chat completion returns.                                   *)
(***************************************************************************)
\* "Contact me at jane@example.com or 555-123-4567."
ContactText ==
    <<"C", "o", "n", "t", "a", "c", "t", " ", "m", "e", " ", "a", "t", " ", "j", "a",
      "n", "e", "@", "e", "x", "a", "m", "p", "l", "e", ".", "c", "o", "m", " ", "o",
      "r", " ", "5", "5", "5", "-", "1", "2", "3", "-", "4", "5", "6", "7", ".">>

\* "A 123-45-6789 B 555-123-4567 C"
SsnPhoneText ==
    <<"A", " ", "1", "2", "3", "-", "4", "5", "-", "6", "7", "8", "9", " ", "B", " ",
      "5", "5", "5", "-", "1", "2", "3", "-", "4", "5", "6", "7", " ", "C">>

\* "The quick brown fox jumps over the lazy dog today."
PlainText ==
    <<"T", "h", "e", " ", "q", "u", "i", "c", "k", " ", "b", "r", "o", "w", "n", " ",
      "f", "o", "x", " ", "j", "u", "m", "p", "s", " ", "o", "v", "e", "r", " ", "t",
      "h", "e", " ", "l", "a", "z", "y", " ", "d", "o", "g", " ", "t", "o", "d", "a",
      "y", ".">>

\* "Server 10.0.0.1"
ServerLine == <<"S", "e", "r", "v", "e", "r", " ", "1", "0", ".", "0", ".", "0", ".", "1">>

\* "card 4111 1111 1111 1111"
CardLine ==
    <<"c", "a", "r", "d", " ", "4", "1", "1", "1", " ", "1", "1", "1", "1", " ", "1",
      "1", "1", "1", " ", "1", "1", "1", "1">>

\* "1.2.3.4@x.com"
NestedText == <<"1", ".", "2", ".", "3", ".", "4", "@", "x", ".", "c", "o", "m">>

\* "jane@example.com"
EmailText ==
    <<"j", "a", "n", "e", "@", "e", "x", "a", "m", "p", "l", "e", ".", "c", "o", "m">>

\* The "analyzeResult" values of a succeeded analysis.
AnalysisResults ==
    {[paragraphs |-> <<ContactText>>, pages |-> <<>>],
     [paragraphs |-> <<SsnPhoneText>>, pages |-> <<>>],
     [paragraphs |-> <<PlainText>>, pages |-> <<>>],
     [paragraphs |-> <<>>, pages |-> <<<<ServerLine>>, <<CardLine, <<" ">>>>>>],
     [paragraphs |-> <<NestedText, <<>>>>, pages |-> <<>>],
     [paragraphs |-> <<>>, pages |-> <<>>]}

\* One item of the array the prompt asks for.
Item(text, pii_type, confidence, start_position, end_position) ==
    [k |-> "object",
     v |-> [text |-> text, pii_type |-> pii_type, confidence |-> confidence,
            start_position |-> start_position, end_position |-> end_position]]

\* The item for the characters [start, end) of ContactText.
ItemAt(pii_type, confidence, start_position, end_position) ==
    Item(SubSeq(ContactText, start_position + 1, end_position), pii_type, confidence,
         start_position, end_position)

\* The pii_type strings of the items: the names the prompt lists, the values of
\* the members, and a string that is neither.
PIITypeStrings ==
    PIIType \cup {PIITypeValue[m] : m \in PIIType} \cup {"UNKNOWN_TYPE"}

\* The items of the responses a pipeline run receives.  The last one has a
\* confidence of 1.5 and offsets that are out of order and behind every text.
PipelineItems ==
    {ItemAt("Email Address", 9500, 14, 30),
     ItemAt("PHONE", 9000, 34, 46),
     ItemAt("UNKNOWN_TYPE", 9900, 0, 7),
     ItemAt("Person Name", 9000, 10, 20),
     ItemAt("Physical Address", 7000, 12, 22),
     ItemAt("URL", 6000, 30, 40),
     Item(<<"J", "a", "n", "e">>, "Person Name", 15000, 60, 55)}

\* Items that lack a field, and items that are no objects.
BrokenItems ==
    {[k |-> "object", v |-> [pii_type |-> "URL", confidence |-> 9000,
                             start_position |-> 0, end_position |-> 7]],
     [k |-> "object", v |-> [text |-> <<"x">>, confidence |-> 9000,
                             start_position |-> 0, end_position |-> 7]],
     [k |-> "object", v |-> [text |-> <<"x">>, pii_type |-> "URL",
                             start_position |-> 0, end_position |-> 7]],
     [k |-> "object", v |-> [text |-> <<"x">>, pii_type |-> "URL",
                             confidence |-> 9000, end_position |-> 7]],
     [k |-> "object", v |-> [text |-> <<"x">>, pii_type |-> "URL",
                             confidence |-> 9000, start_position |-> 0]],
     [k |-> "number", v |-> <<>>],
     [k |-> "string", v |-> <<"x">>],
     [k |-> "null", v |-> <<>>],
     [k |-> "array", v |-> <<>>]}

\* The items of the responses given to detect_pii_with_ai when it is called
\* on its own.
DirectItems ==
    {ItemAt(t, 9500, 14, 30) : t \in PIITypeStrings} \cup BrokenItems

\* The longest array in a response.
MaxItems == 2

\* The JSON arrays of at most MaxItems items of pool.
ArraysOf(pool) ==
    {[k |-> "array", v |-> items] :
        items \in UNION {[1..n -> pool] : n \in 0..MaxItems}}

\* JSON values of another shape than the array the prompt asks for.
OtherValues ==
    {[k |-> "object", v |-> [entities |-> <<>>]],
     [k |-> "object", v |-> <<>>],
     [k |-> "number", v |-> <<>>],
     [k |-> "null", v |-> <<>>],
     [k |-> "string", v |-> <<>>],
     [k |-> "string", v |-> <<"n", "o">>]}

\* Contents that hold no complete JSON value.
MalformedContents ==
    {<<>>, <<Prose>>, <<Fragment>>, <<Prose, WhiteSpace, JsonText([k |-> "array", v |-> <<>>])>>,
     <<Fence, Prose, WhiteSpace, Fragment, Fence>>,
     <<Fence, JsonWord, WhiteSpace, Fragment>>}

\* The ways a response carries the JSON value v.
Bare(v) == <<JsonText(v)>>

FencedJson(v) == <<Fence, JsonWord, WhiteSpace, JsonText(v), WhiteSpace, Fence>>

FencedPlain(v) == <<Prose, WhiteSpace, Fence, WhiteSpace, JsonText(v), WhiteSpace, Fence>>

PipelineContents ==
    {Bare(v) : v \in ArraysOf(PipelineItems)}
        \cup {FencedJson(v) : v \in ArraysOf(PipelineItems)}
        \cup {Bare(v) : v \in OtherValues}
        \cup {Bare([k |-> "array", v |-> <<b>>]) : b \in BrokenItems}
        \cup MalformedContents

\* The JSON values given to detect_pii_with_ai when it is called on its own:
\* every array of one item, the longer arrays of the items of a pipeline run
\* and of two broken items, and the values of another shape.
DirectValues ==
    {[k |-> "array", v |-> <<item>>] : item \in DirectItems}
        \cup ArraysOf(PipelineItems
                \cup {[k |-> "number", v |-> <<>>],
                      [k |-> "object", v |-> [text |-> <<"x">>, pii_type |-> "URL",
                                              confidence |-> 9000, end_position |-> 7]]})
        \cup OtherValues

DirectContents ==
    {Bare(v) : v \in DirectValues}
        \cup {FencedJson(v) : v \in DirectValues}
        \cup {FencedPlain(v) : v \in DirectValues}
        \cup MalformedContents

(***************************************************************************)
(* process_document, statement by statement.                               *)
(***************************************************************************)
\* The number of status polls of analyze_document: range(30).
MaxPolls == 30

\* An exception leaves process_document.
Raise(exc) ==
    /\ pc' = "raised"
    /\ error' = exc

\* The submit with a retry: after an HTTP error the POST is issued again.
SubmitDocumentRetrying ==
    /\ pc = "submit"
    /\ requests_sent.submit < 2
    /\ requests_sent' = [requests_sent EXCEPT !.submit = @ + 1]
    /\ \/ pc' = "submit" /\ error' = error
       \/ Raise("RuntimeError: No operation-location header returned")
       \/ pc' = "poll" /\ error' = error
    /\ UNCHANGED <<environ, agent, poll_i, status, polls, sleeps, analysis_result,
                   text_content, ai_content, ai_entities, regex_entities,
                   all_entities, unique_entities, merge_k, redacted_text, report,
                   redacted_file, report_file, result>>

\* analyze_document: the POST that submits the document.
SubmitDocument ==
    /\ pc = "submit"
    /\ requests_sent' = [requests_sent EXCEPT !.submit = @ + 1]
    /\ \/ Raise("HTTPError")
       \/ Raise("RuntimeError: No operation-location header returned")
       \/ pc' = "poll" /\ error' = error
    /\ UNCHANGED <<environ, agent, poll_i, status, polls, sleeps, analysis_result, text_content, ai_content, ai_entities,
                   regex_entities, all_entities, unique_entities, merge_k,
                   redacted_text, report, redacted_file, report_file, result>>

\* The values of result.get("status", "") in a poll response: the statuses of
\* the service in two spellings, and "" for a response without a status.
PollStatuses == {"succeeded", "Succeeded", "failed", "Failed", "running", "notStarted", ""}

\* status.lower()
StatusLower(raw) ==
    CASE raw = "Succeeded"  -> "succeeded"
      [] raw = "Failed"     -> "failed"
      [] raw = "notStarted" -> "notstarted"
      [] OTHER              -> raw

\* The polling loop with the delay ahead of the status test: a poll that
\* reports a terminal status is followed by a delay too.
PollStatusSleepingFirst ==
    /\ pc = "poll"
    /\ poll_i < MaxPolls
    /\ polls' = polls + 1
    /\ \/ Raise("HTTPError") /\ UNCHANGED <<poll_i, status, sleeps, analysis_result>>
       \/ \E raw \in PollStatuses :
             /\ status' = StatusLower(raw)
             /\ sleeps' = sleeps + 1
             /\ IF status' = "succeeded"
                THEN /\ \E r \in AnalysisResults : analysis_result' = <<r>>
                     /\ pc' = "analyzed"
                     /\ UNCHANGED <<error, poll_i>>
                ELSE IF status' = "failed"
                THEN /\ Raise("RuntimeError: Document analysis failed")
                     /\ UNCHANGED <<poll_i, analysis_result>>
                ELSE /\ poll_i' = poll_i + 1
                     /\ UNCHANGED <<pc, error, analysis_result>>
    /\ UNCHANGED <<environ, agent, text_content, ai_content, ai_entities, regex_entities,
                   all_entities, unique_entities, merge_k, redacted_text, report,
                   redacted_file, report_file, result, requests_sent>>

\* analyze_document: one iteration of the polling loop.
PollStatus ==
    /\ pc = "poll"
    /\ poll_i < MaxPolls
    /\ polls' = polls + 1
    /\ \/ Raise("HTTPError") /\ UNCHANGED <<poll_i, status, sleeps, analysis_result>>
       \/ \E raw \in PollStatuses :
             /\ status' = StatusLower(raw)
             /\ IF status' = "succeeded"
                THEN /\ \E r \in AnalysisResults : analysis_result' = <<r>>
                     /\ pc' = "analyzed"
                     /\ UNCHANGED <<error, poll_i, sleeps>>
                ELSE IF status' = "failed"
                THEN /\ Raise("RuntimeError: Document analysis failed")
                     /\ UNCHANGED <<poll_i, sleeps, analysis_result>>
                ELSE /\ sleeps' = sleeps + 1
                     /\ poll_i' = poll_i + 1
                     /\ UNCHANGED <<pc, error, analysis_result>>
    /\ UNCHANGED <<environ, agent, text_content, ai_content, ai_entities, regex_entities,
                   all_entities, unique_entities, merge_k, redacted_text, report,
                   redacted_file, report_file, result, requests_sent>>

\* analyze_document returns result, and process_document assigns it: the
\* loop variable and the counts of the call end with the call.
ReturnAnalysis ==
    /\ pc = "analyzed"
    /\ pc' = "extract"
    /\ poll_i' = 0
    /\ polls' = 0
    /\ sleeps' = 0
    /\ UNCHANGED <<environ, agent, status, analysis_result, text_content, ai_content, ai_entities,
                   regex_entities, all_entities, unique_entities, merge_k,
                   redacted_text, report, redacted_file, report_file, result, error,
                   requests_sent>>

\* analyze_document: the loop ends without a terminal status.
PollTimeout ==
    /\ pc = "poll"
    /\ poll_i = MaxPolls
    /\ Raise("RuntimeError: Timeout waiting for document analysis")
    /\ UNCHANGED <<environ, agent, poll_i, status, polls, sleeps, analysis_result, text_content, ai_content, ai_entities,
                   regex_entities, all_entities, unique_entities, merge_k,
                   redacted_text, report, redacted_file, report_file, result,
                   requests_sent>>

\* Step 2: extract text content.
ExtractTextContent ==
    /\ pc = "extract"
    /\ text_content' = extract_text_content(analysis_result[1])
    /\ pc' = "detect_ai"
    /\ UNCHANGED <<environ, agent, poll_i, status, polls, sleeps, analysis_result, ai_content, ai_entities, regex_entities,
                   all_entities, unique_entities, merge_k, redacted_text, report,
                   redacted_file, report_file, result, error, requests_sent>>

\* Step 3: detect_pii_with_ai, for a response whose content is in contents.
DetectPIIWithAI(contents) ==
    /\ pc = "detect_ai"
    /\ requests_sent' = [requests_sent EXCEPT !.chat = @ + 1]
    /\ \/ Raise("HTTPError") /\ UNCHANGED <<ai_content, ai_entities>>
       \/ \E content \in contents :
             LET parsed == ParseAIContent(content)
             IN  /\ ai_content' = <<content>>
                 /\ IF parsed.exc = ""
                    THEN /\ ai_entities' = parsed.entities
                         /\ pc' = "regex"
                         /\ error' = error
                    ELSE /\ Raise(parsed.exc)
                         /\ ai_entities' = ai_entities
    /\ UNCHANGED <<environ, agent, poll_i, status, polls, sleeps, analysis_result, text_content, regex_entities,
                   all_entities, unique_entities, merge_k, redacted_text, report,
                   redacted_file, report_file, result>>

\* Step 4 and the start of step 5 with the concatenation the other way round:
\* regex_entities + ai_entities.
ApplyRegexPatternsFirst ==
    /\ pc = "regex"
    /\ regex_entities' = apply_regex_patterns(text_content)
    /\ all_entities' = regex_entities' \o ai_entities
    /\ unique_entities' = <<>>
    /\ merge_k' = 1
    /\ pc' = IF all_entities' = <<>> THEN "redact" ELSE "merge"
    /\ UNCHANGED <<environ, agent, poll_i, status, polls, sleeps, analysis_result, text_content, ai_content, ai_entities,
                   redacted_text, report, redacted_file, report_file, result, error,
                   requests_sent>>

\* Step 4 and the start of step 5: apply_regex_patterns, the concatenation and
\* the empty list of unique entities.
ApplyRegexPatterns ==
    /\ pc = "regex"
    /\ regex_entities' = apply_regex_patterns(text_content)
    /\ all_entities' = ai_entities \o regex_entities'
    /\ unique_entities' = <<>>
    /\ merge_k' = 1
    /\ pc' = IF all_entities' = <<>> THEN "redact" ELSE "merge"
    /\ UNCHANGED <<environ, agent, poll_i, status, polls, sleeps, analysis_result, text_content, ai_content, ai_entities,
                   redacted_text, report, redacted_file, report_file, result, error,
                   requests_sent>>

\* Step 5: one iteration of the loop over all_entities.
MergeStep ==
    /\ pc = "merge"
    /\ merge_k <= Len(all_entities)
    /\ unique_entities' = MergeOne(unique_entities, all_entities[merge_k])
    /\ merge_k' = merge_k + 1
    /\ pc' = IF merge_k = Len(all_entities) THEN "redact" ELSE "merge"
    /\ UNCHANGED <<environ, agent, poll_i, status, polls, sleeps, analysis_result, text_content, ai_content, ai_entities,
                   regex_entities, all_entities, redacted_text, report,
                   redacted_file, report_file, result, error, requests_sent>>

\* Step 6 with a sort in place (pii_entities.sort) instead of sorted(): the
\* caller's list is reordered.
CreateRedactedTextSortingInPlace ==
    /\ pc = "redact"
    /\ redacted_text' = create_redacted_text(text_content, unique_entities)
    /\ unique_entities' = SortedByStartDesc(unique_entities)
    /\ pc' = "save_redacted"
    /\ UNCHANGED <<environ, agent, poll_i, status, polls, sleeps, analysis_result, text_content, ai_content, ai_entities,
                   regex_entities, all_entities, merge_k, report,
                   redacted_file, report_file, result, error, requests_sent>>

\* Step 6: create redacted text.
CreateRedactedText ==
    /\ pc = "redact"
    /\ redacted_text' = create_redacted_text(text_content, unique_entities)
    /\ pc' = "save_redacted"
    /\ UNCHANGED <<environ, agent, poll_i, status, polls, sleeps, analysis_result, text_content, ai_content, ai_entities,
                   regex_entities, all_entities, unique_entities, merge_k, report,
                   redacted_file, report_file, result, error, requests_sent>>

\* Step 7 with the failure of the write swallowed: the run goes on to the
\* report although no redacted document was saved.
SaveRedactedTextIgnoringError ==
    /\ pc = "save_redacted"
    /\ \/ redacted_file' = Append(redacted_file, redacted_text)
       \/ UNCHANGED redacted_file
    /\ pc' = "report"
    /\ error' = error
    /\ UNCHANGED <<environ, agent, poll_i, status, polls, sleeps, analysis_result, text_content, ai_content, ai_entities,
                   regex_entities, all_entities, unique_entities, merge_k,
                   redacted_text, report, report_file, result, requests_sent>>

\* Step 7: save the redacted document; open() or write() may fail.
SaveRedactedText ==
    /\ pc = "save_redacted"
    /\ \/ /\ redacted_file' = Append(redacted_file, redacted_text)
          /\ pc' = "report"
          /\ error' = error
       \/ Raise("OSError") /\ UNCHANGED redacted_file
    /\ UNCHANGED <<environ, agent, poll_i, status, polls, sleeps, analysis_result, text_content, ai_content, ai_entities,
                   regex_entities, all_entities, unique_entities, merge_k,
                   redacted_text, report, report_file, result, requests_sent>>

\* Step 8: generate the report.
GenerateRedactionReport ==
    /\ pc = "report"
    /\ \E r \in generate_redaction_report(unique_entities) : report' = <<r>>
    /\ pc' = "save_report"
    /\ UNCHANGED <<environ, agent, poll_i, status, polls, sleeps, analysis_result, text_content, ai_content, ai_entities,
                   regex_entities, all_entities, unique_entities, merge_k,
                   redacted_text, redacted_file, report_file, result, error,
                   requests_sent>>

\* Step 9 and the return: save the report, build the RedactionResult.
SaveReport ==
    /\ pc = "save_report"
    /\ \/ /\ report_file' = Append(report_file, report[1])
          /\ result' = <<[pii_entities |-> unique_entities,
                          redaction_summary |-> report[1]]>>
          /\ pc' = "done"
          /\ error' = error
       \/ Raise("OSError") /\ UNCHANGED <<report_file, result>>
    /\ UNCHANGED <<environ, agent, poll_i, status, polls, sleeps, analysis_result, text_content, ai_content, ai_entities,
                   regex_entities, all_entities, unique_entities, merge_k,
                   redacted_text, report, redacted_file, requests_sent>>

\* The state in which process_document is entered.
Init ==
    /\ pc = "submit"
    /\ environ = ConfiguredEnviron
    /\ agent = <<AgentOf(ConfiguredEnviron)>>
    /\ poll_i = 0
    /\ status = "none"
    /\ polls = 0
    /\ sleeps = 0
    /\ analysis_result = <<>>
    /\ text_content = <<>>
    /\ ai_content = <<>>
    /\ ai_entities = <<>>
    /\ regex_entities = <<>>
    /\ all_entities = <<>>
    /\ unique_entities = <<>>
    /\ merge_k = 1
    /\ redacted_text = <<>>
    /\ report = <<>>
    /\ redacted_file = <<>>
    /\ report_file = <<>>
    /\ result = <<>>
    /\ error = ""
    /\ requests_sent = [submit |-> 0, chat |-> 0]

Next ==
    \/ SubmitDocument
    \/ PollStatus
    \/ PollTimeout
    \/ ReturnAnalysis
    \/ ExtractTextContent
    \/ DetectPIIWithAI(PipelineContents)
    \/ ApplyRegexPatterns
    \/ MergeStep
    \/ CreateRedactedText
    \/ SaveRedactedText
    \/ GenerateRedactionReport
    \/ SaveReport

Spec == Init /\ [][Next]_vars

(***************************************************************************)
(* The construction of the agent, as main() makes it, followed by the      *)
(* first request of process_document.                                      *)
(***************************************************************************)
\* The values a variable has in the environment of the process.
EndpointValues == {<<>>, <<"/">>, <<"h", "/">>}

KeyValues == {<<>>, <<"k">>}

ValuesOf(name) ==
    IF name \in {"AZURE_DOCINTEL_ENDPOINT", "AZURE_OPENAI_ENDPOINT"}
    THEN EndpointValues ELSE KeyValues

\* The environments of the process: any of the five variables set or unset.
Environs ==
    UNION {{env \in [names -> EndpointValues \cup KeyValues] :
                \A n \in names : env[n] \in ValuesOf(n)} :
           names \in SUBSET RequiredNames}

\* The .env files, as the lines read_text().splitlines() gives: an empty
\* file; an assignment; a comment, an assignment of nothing and a line
\* without "="; blanks and quotes around the key and the value, and a value
\* of two quotes; an endpoint that is a slash only; a value with a "=".
DotenvFiles ==
    {<<>>,
     <<(<<"AZURE_OPENAI_DEPLOYMENT", "=", "k">>)>>,
     <<(<<"#", " ", "AZURE_OPENAI_KEY", "=", "k">>), <<"AZURE_OPENAI_KEY", "=">>,
       <<"AZURE_OPENAI_KEY">>>>,
     <<(<<" ", "AZURE_DOCINTEL_ENDPOINT", " ", "=", " ", "'", "h", "/", "'", " ">>),
       <<"AZURE_DOCINTEL_KEY", "=", "\"", "\"">>>>,
     <<(<<"AZURE_OPENAI_ENDPOINT", "=", "/">>)>>,
     <<(<<"AZURE_OPENAI_KEY", "=", "k", "=", "k">>)>>}

\* __init__: load_dotenv(), which finds a .env file or none, the attributes,
\* and the two asserts.
PIIRedactionAgentInit ==
    /\ pc = "init"
    /\ \E loaded \in {environ} \cup {load_dotenv(environ, f, 1) : f \in DotenvFiles} :
          /\ environ' = loaded
          /\ IF ~DocintelConfigured(AgentOf(loaded))
             THEN /\ Raise("AssertionError: Set AZURE_DOCINTEL_ENDPOINT and AZURE_DOCINTEL_KEY")
                  /\ agent' = agent
             ELSE IF ~AoaiConfigured(AgentOf(loaded))
             THEN /\ Raise("AssertionError: Set Azure OpenAI environment variables")
                  /\ agent' = agent
             ELSE /\ agent' = <<AgentOf(loaded)>>
                  /\ pc' = "submit"
                  /\ error' = error
    /\ UNCHANGED <<poll_i, status, polls, sleeps, analysis_result, text_content,
                   ai_content, ai_entities, regex_entities, all_entities,
                   unique_entities, merge_k, redacted_text, report, redacted_file,
                   report_file, result, requests_sent>>

InitConstruct ==
    /\ environ \in Environs
    /\ agent = <<>>
    /\ pc = "init"
    /\ poll_i = 0
    /\ status = "none"
    /\ polls = 0
    /\ sleeps = 0
    /\ analysis_result = <<>>
    /\ text_content = <<>>
    /\ ai_content = <<>>
    /\ ai_entities = <<>>
    /\ regex_entities = <<>>
    /\ all_entities = <<>>
    /\ unique_entities = <<>>
    /\ merge_k = 1
    /\ redacted_text = <<>>
    /\ report = <<>>
    /\ redacted_file = <<>>
    /\ report_file = <<>>
    /\ result = <<>>
    /\ error = ""
    /\ requests_sent = [submit |-> 0, chat |-> 0]

NextConstruct == PIIRedactionAgentInit \/ SubmitDocument

SpecConstruct == InitConstruct /\ [][NextConstruct]_vars

(***************************************************************************)
(* analyze_document called on its own.  Every request has a timeout, so     *)
(* every statement of the call ends: the steps are weakly fair.             *)
(***************************************************************************)
NextAnalyze == SubmitDocument \/ PollStatus \/ PollTimeout

SpecAnalyze == Init /\ [][NextAnalyze]_vars /\ WF_vars(NextAnalyze)

(***************************************************************************)
(* The polling loops of the demos: analyze_document of                     *)
(* demo_docintel_summarize.py and demo_document_intelligence_and_summarize *)
(* of demo.py.                                                             *)
(***************************************************************************)
\* The poll response of an analysis that has failed carries no analyzeResult.
NoAnalyzeResult == [paragraphs |-> <<>>, pages |-> <<>>]

\* The variables of the pipeline the demos do not have.
PipelineUnchanged ==
    UNCHANGED <<environ, agent, text_content, ai_content, ai_entities, regex_entities,
                all_entities,
                unique_entities, merge_k, redacted_text, report, redacted_file,
                report_file, result, requests_sent>>

\* demo_docintel_summarize.analyze_document: the POST that submits the file.
DocintelSubmit ==
    /\ pc = "docintel_submit"
    /\ \/ Raise("HTTPError")
       \/ Raise("RuntimeError: No operation-location header returned")
       \/ pc' = "docintel_poll" /\ error' = error
    /\ UNCHANGED <<poll_i, status, polls, sleeps, analysis_result>>
    /\ PipelineUnchanged

\* demo_docintel_summarize.analyze_document: one iteration of "for _ in
\* range(30)"; a terminal status, succeeded or failed, returns data.
DocintelPollStatus ==
    /\ pc = "docintel_poll"
    /\ poll_i < 30
    /\ polls' = polls + 1
    /\ \/ Raise("HTTPError") /\ UNCHANGED <<poll_i, status, sleeps, analysis_result>>
       \/ \E raw \in PollStatuses :
             /\ status' = StatusLower(raw)
             /\ IF status' \in {"succeeded", "failed"}
                THEN /\ analysis_result' \in
                            IF status' = "succeeded"
                            THEN {<<r>> : r \in AnalysisResults}
                            ELSE {<<NoAnalyzeResult>>}
                     /\ pc' = "docintel_returned"
                     /\ UNCHANGED <<error, poll_i, sleeps>>
                ELSE /\ sleeps' = sleeps + 1
                     /\ poll_i' = poll_i + 1
                     /\ UNCHANGED <<pc, error, analysis_result>>
    /\ PipelineUnchanged

\* demo_docintel_summarize.analyze_document: the statement behind the loop.
DocintelPollTimeout ==
    /\ pc = "docintel_poll"
    /\ poll_i = 30
    /\ Raise("RuntimeError: Timeout polling analyze operation")
    /\ UNCHANGED <<poll_i, status, polls, sleeps, analysis_result>>
    /\ PipelineUnchanged

\* demo_docintel_summarize.main: summarize_with_aoai(analysis), called with
\* whatever analyze_document returned: the assert on the three variables, then
\* the POST to the chat completion and raise_for_status().
DocintelSummarize ==
    /\ pc = "docintel_returned"
    /\ IF AoaiConfigured(AgentOf(environ))
       THEN /\ requests_sent' = [requests_sent EXCEPT !.chat = @ + 1]
            /\ \/ Raise("HTTPError")
               \/ pc' = "docintel_done" /\ error' = error
       ELSE /\ Raise("AssertionError: Set Azure OpenAI vars in .env")
            /\ UNCHANGED requests_sent
    /\ UNCHANGED <<environ, agent, poll_i, status, polls, sleeps, analysis_result,
                   text_content, ai_content, ai_entities, regex_entities,
                   all_entities, unique_entities, merge_k, redacted_text, report,
                   redacted_file, report_file, result>>

\* demo.py: the POST that submits the file, and the assert on the header.
DemoSubmit ==
    /\ pc = "demo_submit"
    /\ \/ Raise("HTTPError")
       \/ Raise("AssertionError: No operation-location header returned")
       \/ pc' = "demo_poll" /\ error' = error
    /\ UNCHANGED <<poll_i, status, polls, sleeps, analysis_result>>
    /\ PipelineUnchanged

\* demo.py: one iteration of "for _ in range(30)"; a terminal status breaks.
DemoPollStatus ==
    /\ pc = "demo_poll"
    /\ poll_i < 30
    /\ polls' = polls + 1
    /\ \/ Raise("HTTPError") /\ UNCHANGED <<poll_i, status, sleeps, analysis_result>>
       \/ \E raw \in PollStatuses :
             /\ status' = StatusLower(raw)
             /\ analysis_result' \in
                    IF status' = "succeeded"
                    THEN {<<r>> : r \in AnalysisResults}
                    ELSE {<<NoAnalyzeResult>>}
             /\ IF status' \in {"succeeded", "failed"}
                THEN /\ pc' = "demo_check"
                     /\ UNCHANGED <<error, poll_i, sleeps>>
                ELSE /\ sleeps' = sleeps + 1
                     /\ poll_i' = poll_i + 1
                     /\ UNCHANGED <<pc, error>>
    /\ PipelineUnchanged

\* demo.py: the loop ends after its 30th iteration.
DemoPollExhausted ==
    /\ pc = "demo_poll"
    /\ poll_i = 30
    /\ pc' = "demo_check"
    /\ UNCHANGED <<poll_i, status, polls, sleeps, analysis_result, error>>
    /\ PipelineUnchanged

\* f"Analyze did not succeed: {status}"
DidNotSucceed(s) ==
    CASE s = "failed"     -> "RuntimeError: Analyze did not succeed: failed"
      [] s = "running"    -> "RuntimeError: Analyze did not succeed: running"
      [] s = "notstarted" -> "RuntimeError: Analyze did not succeed: notstarted"
      [] OTHER            -> "RuntimeError: Analyze did not succeed: "

\* demo.py: the check behind the loop, "if status != succeeded: raise".
DemoCheckStatus ==
    /\ pc = "demo_check"
    /\ IF status # "succeeded"
       THEN Raise(DidNotSucceed(status))
       ELSE pc' = "demo_summarize" /\ error' = error
    /\ UNCHANGED <<poll_i, status, polls, sleeps, analysis_result>>
    /\ PipelineUnchanged

InitDemo ==
    /\ pc \in {"docintel_submit", "demo_submit"}
    /\ environ = ConfiguredEnviron
    /\ agent = <<AgentOf(ConfiguredEnviron)>>
    /\ poll_i = 0
    /\ status = "none"
    /\ polls = 0
    /\ sleeps = 0
    /\ analysis_result = <<>>
    /\ text_content = <<>>
    /\ ai_content = <<>>
    /\ ai_entities = <<>>
    /\ regex_entities = <<>>
    /\ all_entities = <<>>
    /\ unique_entities = <<>>
    /\ merge_k = 1
    /\ redacted_text = <<>>
    /\ report = <<>>
    /\ redacted_file = <<>>
    /\ report_file = <<>>
    /\ result = <<>>
    /\ error = ""
    /\ requests_sent = [submit |-> 0, chat |-> 0]

NextDemo ==
    \/ DocintelSubmit
    \/ DocintelPollStatus
    \/ DocintelPollTimeout
    \/ DocintelSummarize
    \/ DemoSubmit
    \/ DemoPollStatus
    \/ DemoPollExhausted
    \/ DemoCheckStatus

SpecDemo == InitDemo /\ [][NextDemo]_vars

(***************************************************************************)
(* detect_pii_with_ai called on its own, as tests/test_pii_text.py calls   *)
(* it, on ContactText.                                                     *)
(***************************************************************************)
InitAI ==
    /\ pc = "detect_ai"
    /\ environ = ConfiguredEnviron
    /\ agent = <<AgentOf(ConfiguredEnviron)>>
    /\ poll_i = 0
    /\ status = "none"
    /\ polls = 0
    /\ sleeps = 0
    /\ analysis_result = <<>>
    /\ text_content = ContactText
    /\ ai_content = <<>>
    /\ ai_entities = <<>>
    /\ regex_entities = <<>>
    /\ all_entities = <<>>
    /\ unique_entities = <<>>
    /\ merge_k = 1
    /\ redacted_text = <<>>
    /\ report = <<>>
    /\ redacted_file = <<>>
    /\ report_file = <<>>
    /\ result = <<>>
    /\ error = ""
    /\ requests_sent = [submit |-> 0, chat |-> 0]

NextAI == DetectPIIWithAI(DirectContents)

SpecAI == InitAI /\ [][NextAI]_vars

(***************************************************************************)
(* detect_pii_with_ai called on its own with contents that carry a JSON    *)
(* array bare and in a fenced code block.                                  *)
(***************************************************************************)
\* The number 5 and the empty array.
JsonNumber == [k |-> "number", v |-> <<>>]

JsonEmptyArray == [k |-> "array", v |-> <<>>]

\* What a string of an array can hold between its quotes besides letters: a
\* fence, a number or an empty array between two fences, the same behind the
\* word json.
Inners ==
    {<<Fence>>,
     <<Fence, JsonText(JsonNumber), Fence>>,
     <<Fence, JsonText(JsonEmptyArray), Fence>>,
     <<Fence, JsonWord, JsonText(JsonEmptyArray), Fence>>}

\* The characters of a text field that holds the tokens inner between a and
\* b: a fence counts as one element, "fence".
RECURSIVE CharsOf(_)
CharsOf(tokens) ==
    IF tokens = <<>> THEN <<>>
    ELSE (CASE tokens[1].k = "fence" -> <<"fence">>
            [] tokens[1].k = "json"  -> <<"j", "s", "o", "n">>
            [] tokens[1].v[1] = JsonNumber -> <<"5">>
            [] OTHER -> <<"[", "]">>) \o CharsOf(Tail(tokens))

\* The array of one URL item whose text is a, the tokens inner, b.
ArrayAround(inner) ==
    [k |-> "array",
     v |-> <<Item(<<"a">> \o CharsOf(inner) \o <<"b">>, "URL", 9000, 0, 7)>>]

\* The items of the arrays without a fence in their text.
FenceFreeItems ==
    {ItemAt("Email Address", 9500, 14, 30), ItemAt("URL", 6000, 30, 40),
     ItemAt("Person Name", 9000, 10, 20), ItemAt("PHONE", 9000, 34, 46)}

\* The texts of the arrays: those without a fence in one token, those with
\* fences in a string cut at the string.
ArrayTexts ==
    {<<JsonText(v)>> : v \in ArraysOf(FenceFreeItems)}
        \cup {CutText(ArrayAround(inner), inner) : inner \in Inners}

\* The ways a response wraps the text of an array in a fenced code block.
FencedJsonText(text) == <<Fence, JsonWord, WhiteSpace>> \o text \o <<WhiteSpace, Fence>>

FencedPlainText(text) == <<Fence, WhiteSpace>> \o text \o <<WhiteSpace, Fence>>

FencedJsonTight(text) == <<Fence, JsonWord>> \o text \o <<Fence>>

FencedWithProse(text) ==
    <<Prose, WhiteSpace, Fence, JsonWord, WhiteSpace>> \o text
        \o <<WhiteSpace, Fence, WhiteSpace, Prose>>

FencedContents ==
    {FencedJsonText(t) : t \in ArrayTexts}
        \cup {FencedPlainText(t) : t \in ArrayTexts}
        \cup {FencedJsonTight(t) : t \in ArrayTexts}
        \cup {FencedWithProse(t) : t \in ArrayTexts}

FenceContents == ArrayTexts \cup FencedContents

NextFence == DetectPIIWithAI(FenceContents)

SpecFence == InitAI /\ [][NextFence]_vars

(***************************************************************************)
(* apply_regex_patterns called on its own, on the texts made of at most    *)
(* MaxChunks chunks and on the texts of the documents.                     *)
(***************************************************************************)
Chunks ==
    {<<"1", "2", "3", "-", "4", "5", "-">>,
     <<"6", "7", "8", "9">>,
     <<"5", "5", "5", "-", "1", "2", "3", "-">>,
     <<"4", "5", "6", "7">>,
     <<"1", "0", ".", "0", ".">>,
     <<"0", ".", "1">>,
     <<"j", "a", "n", "e", "@", "e", "x">>,
     <<".", "c", "o", "m">>,
     <<"4", "1", "1", "1", " ", "1", "1", "1", "1", " ", "1", "1", "1", "1", " ">>,
     <<ArabicThree, ArabicThree, ArabicThree, "-", ArabicThree, ArabicThree, "-">>,
     <<"[", "R", "E", "D", "A", "C", "T", "E", "D", "-", "S", "S", "N", "]">>,
     <<" ">>,
     <<"a", "t">>}

\* The most chunks in a text.
MaxChunks == 2

RegexTexts ==
    {Flatten(cs) : cs \in UNION {[1..n -> Chunks] : n \in 0..MaxChunks}}
        \cup {ContactText, SsnPhoneText, PlainText, NestedText, CardLine}

InitRegex ==
    /\ pc = "regex"
    /\ environ = ConfiguredEnviron
    /\ agent = <<AgentOf(ConfiguredEnviron)>>
    /\ poll_i = 0
    /\ status = "none"
    /\ polls = 0
    /\ sleeps = 0
    /\ analysis_result = <<>>
    /\ text_content \in RegexTexts
    /\ ai_content = <<>>
    /\ ai_entities = <<>>
    /\ regex_entities = <<>>
    /\ all_entities = <<>>
    /\ unique_entities = <<>>
    /\ merge_k = 1
    /\ redacted_text = <<>>
    /\ report = <<>>
    /\ redacted_file = <<>>
    /\ report_file = <<>>
    /\ result = <<>>
    /\ error = ""
    /\ requests_sent = [submit |-> 0, chat |-> 0]

NextRegex == ApplyRegexPatterns

SpecRegex == InitRegex /\ [][NextRegex]_vars

(***************************************************************************)
(* create_redacted_text called on its own, and apply_regex_patterns called *)
(* on its result.                                                          *)
(***************************************************************************)
\* A text, the offsets at which its entities start and end, and their types.
RedactInputs ==
    {[text |-> SsnPhoneText, cuts |-> {0, 2, 13, 16, 28}, types |-> {"SSN", "PHONE"}],
     [text |-> EmailText, cuts |-> {0, 5, 12, 16}, types |-> {"NAME", "IP_ADDRESS"}]}

\* The entities of an input: every span between two cuts, with every type.
EntitiesOf(input) ==
    {PIIEntity(SubSeq(input.text, s + 1, e), t, 9000, s, e) :
        <<s, e, t>> \in {x \in input.cuts \X input.cuts \X input.types : x[1] < x[2]}}

\* The longest entity list given to create_redacted_text.
MaxEntities == 2

EntityListsOf(input) ==
    UNION {[1..n -> EntitiesOf(input)] : n \in 0..MaxEntities}

\* Offsets of every kind a slice takes: negative ones that count from the end
\* or lie before the text, one inside the text, one behind it.
WildOffsets == {-20, -3, 5, 40}

\* Entities of EmailText with any two of these offsets, the start behind the
\* end or equal to it included, and one entity whose span lies in the text.
WildEntities ==
    {PIIEntity(<<"x">>, "URL", 9000, s, e) : s, e \in WildOffsets}
        \cup {PIIEntity(SubSeq(EmailText, 6, 12), "NAME", 9000, 5, 12)}

\* One such entity, or two of them in either order.
WildEntityLists ==
    {<<a>> : a \in WildEntities} \cup {<<a, b>> : a, b \in WildEntities}

InitRedact ==
    /\ pc = "redact"
    /\ environ = ConfiguredEnviron
    /\ agent = <<AgentOf(ConfiguredEnviron)>>
    /\ poll_i = 0
    /\ status = "none"
    /\ polls = 0
    /\ sleeps = 0
    /\ analysis_result = <<>>
    /\ \/ \E input \in RedactInputs :
             /\ text_content = input.text
             /\ unique_entities \in EntityListsOf(input)
       \/ /\ text_content = EmailText
          /\ unique_entities \in WildEntityLists
    /\ ai_content = <<>>
    /\ ai_entities = <<>>
    /\ regex_entities = <<>>
    /\ all_entities = <<>>
    /\ merge_k = 1
    /\ redacted_text = <<>>
    /\ report = <<>>
    /\ redacted_file = <<>>
    /\ report_file = <<>>
    /\ result = <<>>
    /\ error = ""
    /\ requests_sent = [submit |-> 0, chat |-> 0]

\* apply_regex_patterns on the redacted text.
ExtractFromRedacted ==
    /\ pc = "save_redacted"
    /\ regex_entities' = apply_regex_patterns(redacted_text)
    /\ pc' = "reextracted"
    /\ UNCHANGED <<environ, agent, poll_i, status, polls, sleeps, analysis_result, text_content, ai_content, ai_entities,
                   all_entities, unique_entities, merge_k, redacted_text, report,
                   redacted_file, report_file, result, error, requests_sent>>

NextRedact == CreateRedactedText \/ ExtractFromRedacted

SpecRedact == InitRedact /\ [][NextRedact]_vars

(***************************************************************************)
(* Steps 4 to 6 of process_document on ContactText, for the entity lists   *)
(* detect_pii_with_ai can return: every entity has valid offsets.          *)
(***************************************************************************)
\* The entity of type pii_type for the characters [start, end) of ContactText.
EntityAt(pii_type, confidence, start_position, end_position) ==
    PIIEntity(SubSeq(ContactText, start_position + 1, end_position), pii_type,
              confidence, start_position, end_position)

\* Entities inside, across, around and next to the two matches of the
\* patterns, the email address [14,30) and the phone number [34,46).
MergeEntities ==
    {EntityAt("NAME", 9000, 14, 18),
     EntityAt("EMAIL", 6000, 14, 30),
     EntityAt("BANK_ACCOUNT", 5000, 33, 46),
     EntityAt("ADDRESS", 9000, 10, 40),
     EntityAt("NAME", 9500, 12, 20),
     EntityAt("URL", 9000, 10, 12),
     EntityAt("IP_ADDRESS", 7000, 13, 15),
     EntityAt("SSN", 9000, 15, 17),
     EntityAt("PASSPORT", 9000, 6, 8),
     EntityAt("DRIVER_LICENSE", 9000, 29, 42)}

\* The lists detect_pii_with_ai returns.
MergeInputs == UNION {[1..n -> MergeEntities] : n \in 0..MaxEntities}

InitMerge ==
    /\ pc = "regex"
    /\ environ = ConfiguredEnviron
    /\ agent = <<AgentOf(ConfiguredEnviron)>>
    /\ poll_i = 0
    /\ status = "none"
    /\ polls = 0
    /\ sleeps = 0
    /\ analysis_result = <<>>
    /\ text_content = ContactText
    /\ ai_content = <<>>
    /\ ai_entities \in MergeInputs
    /\ regex_entities = <<>>
    /\ all_entities = <<>>
    /\ unique_entities = <<>>
    /\ merge_k = 1
    /\ redacted_text = <<>>
    /\ report = <<>>
    /\ redacted_file = <<>>
    /\ report_file = <<>>
    /\ result = <<>>
    /\ error = ""
    /\ requests_sent = [submit |-> 0, chat |-> 0]

NextMerge == ApplyRegexPatterns \/ MergeStep \/ CreateRedactedText

SpecMerge == InitMerge /\ [][NextMerge]_vars

(***************************************************************************)
(* generate_redaction_report called on its own.                            *)
(***************************************************************************)
\* The confidences of the entities: 0.8 and 0.801, whose mean is a tie no
\* float holds; 0.8125 and 0.9375, ties a float holds; 0.8126.
ReportConfidences == {8000, 8010, 8125, 9375, 8126}

ReportTypes == {"SSN", "EMAIL", "URL"}

ReportEntities ==
    {PIIEntity(<<"x">>, t, c, 0, 1) : t \in ReportTypes, c \in ReportConfidences}

InitReport ==
    /\ pc = "report"
    /\ environ = ConfiguredEnviron
    /\ agent = <<AgentOf(ConfiguredEnviron)>>
    /\ poll_i = 0
    /\ status = "none"
    /\ polls = 0
    /\ sleeps = 0
    /\ analysis_result = <<>>
    /\ text_content = <<"x">>
    /\ unique_entities \in UNION {[1..n -> ReportEntities] : n \in 0..MaxEntities}
    /\ ai_content = <<>>
    /\ ai_entities = <<>>
    /\ regex_entities = <<>>
    /\ all_entities = <<>>
    /\ merge_k = 1
    /\ redacted_text = <<>>
    /\ report = <<>>
    /\ redacted_file = <<>>
    /\ report_file = <<>>
    /\ result = <<>>
    /\ error = ""
    /\ requests_sent = [submit |-> 0, chat |-> 0]

NextReport == GenerateRedactionReport

SpecReport == InitReport /\ [][NextReport]_vars

(***************************************************************************)
(* Properties of the redactor.                                             *)
(***************************************************************************)
ValidSpan(e, text) ==
    0 <= e.start_position /\ e.start_position < e.end_position /\ e.end_position <= Len(text)

DisjointSpans(e1, e2) ==
    e1.end_position <= e2.start_position \/ e2.end_position <= e1.start_position

\* The spans of es lie in text and no two of them share a character.
DisjointValid(es, text) ==
    /\ \A j \in 1..Len(es) : ValidSpan(es[j], text)
    /\ \A i, j \in 1..Len(es) : i # j => DisjointSpans(es[i], es[j])

\* The text read from offset pos on, left to right: at the start of a span its
\* placeholder, then the text behind the span; elsewhere the character itself.
RECURSIVE LeftToRight(_, _, _)
LeftToRight(text, es, pos) ==
    IF pos >= Len(text) THEN <<>>
    ELSE IF \E j \in 1..Len(es) : es[j].start_position = pos
         THEN LET e == es[CHOOSE j \in 1..Len(es) : es[j].start_position = pos]
              IN  <<"[", "R", "E", "D", "A", "C", "T", "E", "D", "-">>
                      \o PIITypeNameChars[e.pii_type] \o <<"]">>
                      \o LeftToRight(text, es, e.end_position)
         ELSE <<text[pos + 1]>> \o LeftToRight(text, es, pos + 1)

\* "A [REDACTED-SSN] B [REDACTED-PHONE] C"
SsnPhoneRedacted ==
    <<"A", " ", "[", "R", "E", "D", "A", "C", "T", "E", "D", "-", "S", "S", "N", "]",
      " ", "B", " ", "[", "R", "E", "D", "A", "C", "T", "E", "D", "-", "P", "H", "O",
      "N", "E", "]", " ", "C">>

\* The SSN span and the phone span of SsnPhoneText.
SsnSpan == PIIEntity(SubSeq(SsnPhoneText, 3, 13), "SSN", 9000, 2, 13)

PhoneSpan == PIIEntity(SubSeq(SsnPhoneText, 17, 28), "PHONE", 9000, 16, 28)

Redacted == pc \in {"save_redacted", "reextracted"}

\* C1: for pairwise disjoint spans inside the text, create_redacted_text returns
\* the text with every span replaced by its placeholder [REDACTED-<NAME>] and
\* every other character kept in place and in order; the SSN span and the
\* phone span of "A 123-45-6789 B 555-123-4567 C" give
\* "A [REDACTED-SSN] B [REDACTED-PHONE] C".
C1_DisjointSpansReplaced ==
    Redacted =>
        /\ DisjointValid(unique_entities, text_content)
              => redacted_text = LeftToRight(text_content, unique_entities, 0)
        /\ (text_content = SsnPhoneText
                /\ unique_entities \in {<<SsnSpan, PhoneSpan>>, <<PhoneSpan, SsnSpan>>})
              => redacted_text = SsnPhoneRedacted

C1_Witness ==
    /\ pc = "save_redacted"
    /\ text_content = SsnPhoneText
    /\ unique_entities = <<SsnSpan, PhoneSpan>>
    /\ redacted_text = SsnPhoneRedacted

\* For every character of the redacted text, whether a placeholder brought it:
\* the splices of create_redacted_text, applied to marks instead of characters.
PlaceholderMask(text, es) ==
    LET sorted_entities == SortedByStartDesc(es)
    IN  SpliceAll([j \in 1..Len(text) |-> FALSE], sorted_entities,
                  [k \in 1..Len(sorted_entities) |->
                      [j \in 1..Len(Redaction(sorted_entities[k])) |-> TRUE]], 1)

\* The entity e, found in a text with the given mask, has no character of a
\* placeholder in its span.
OutsidePlaceholders(e, mask) ==
    \A p \in (e.start_position + 1)..e.end_position : ~mask[p]

\* No pattern matches in the placeholder of any of the twelve types.
NoPlaceholderMatches ==
    \A m \in PIIType : apply_regex_patterns(Redaction([pii_type |-> m])) = <<>>

\* C4: pattern extraction on the output of create_redacted_text finds no entity
\* inside or overlapping an inserted placeholder, and none of the twelve
\* placeholders is matched by any of the five patterns.
C4_PlaceholdersNotExtracted ==
    /\ NoPlaceholderMatches
    /\ pc = "reextracted" =>
          \A j \in 1..Len(regex_entities) :
              OutsidePlaceholders(regex_entities[j],
                                  PlaceholderMask(text_content, unique_entities))

C4_Witness ==
    /\ pc = "reextracted"
    /\ text_content = SsnPhoneText
    /\ unique_entities = <<SsnSpan>>
    /\ Len(regex_entities) = 1
    /\ regex_entities[1].pii_type = "PHONE"

(***************************************************************************)
(* Properties of the merger.                                               *)
(***************************************************************************)
\* The spans of a list of entities.
Spans(es) == [j \in 1..Len(es) |-> <<es[j].start_position, es[j].end_position>>]

\* Some retained entity has its start and its end less than 5 characters from
\* the start and the end of the candidate.
NearRetained(candidate, retained) ==
    \E j \in 1..Len(retained) :
        /\ candidate.start_position - retained[j].start_position \in -4..4
        /\ candidate.end_position - retained[j].end_position \in -4..4

Merged == pc \in {"redact", "save_redacted", "report", "save_report", "done"}

\* C2: the merger scans the AI entities, then the pattern entities, left to
\* right; it appends a candidate to the retained list if and only if no
\* retained entity has both its start and its end less than 5 characters from
\* the candidate's, and otherwise leaves the retained list as it is.
\* [10,20) followed by [12,22) retains [10,20) only; [10,20) followed by
\* [30,40) retains both.
C2_MergerFirstSeenWins ==
    /\ [][pc = "merge" =>
            /\ all_entities = ai_entities \o regex_entities
            /\ merge_k' = merge_k + 1
            /\ unique_entities' =
                  IF NearRetained(all_entities[merge_k], unique_entities)
                  THEN unique_entities
                  ELSE Append(unique_entities, all_entities[merge_k])]_vars
    /\ [](Merged /\ Spans(all_entities) = <<(<<10, 20>>), (<<12, 22>>)>>
             => unique_entities = <<all_entities[1]>>)
    /\ [](Merged /\ Spans(all_entities) = <<(<<10, 20>>), (<<30, 40>>)>>
             => unique_entities = all_entities)

C2_Witness ==
    /\ pc = "redact"
    /\ Spans(all_entities) = <<(<<10, 20>>), (<<12, 22>>)>>
    /\ Spans(unique_entities) = <<(<<10, 20>>)>>

(***************************************************************************)
(* Properties of the report.                                               *)
(***************************************************************************)
\* The entities es with every text replaced by t.
WithText(es, t) == [j \in 1..Len(es) |-> [es[j] EXCEPT !.text = t]]

\* C3: every element of the report's 'entities' list has the text
\* ***REDACTED*** and besides it only the category, the confidence and the
\* position; entity lists that differ in their texts only give the same report.
C3_ReportHidesText ==
    report # <<>> =>
        /\ Len(report[1].entities) = Len(unique_entities)
        /\ \A j \in 1..Len(unique_entities) :
              /\ DOMAIN report[1].entities[j] = {"text", "type", "confidence", "position"}
              /\ report[1].entities[j].text = RedactedMarker
              /\ report[1].entities[j].type = PIITypeValue[unique_entities[j].pii_type]
              /\ report[1].entities[j].confidence = unique_entities[j].confidence
        /\ \A t \in {<<>>, <<"x">>, RedactedMarker} :
              report[1] \in generate_redaction_report(WithText(unique_entities, t))

C3_Witness ==
    /\ pc = "done"
    /\ Len(unique_entities) >= 2
    /\ unique_entities[1].text # unique_entities[2].text
    /\ report_file = report

(***************************************************************************)
(* Properties of detect_pii_with_ai.                                       *)
(***************************************************************************)
\* The response has arrived and its content is the text of one JSON value,
\* bare or in a fenced code block.
Carried == ai_content # <<>> /\ ai_content[1] \notin MalformedContents

\* The JSON value whose text is in content.
ValueIn(content) ==
    content[CHOOSE i \in 1..Len(content) : content[i].k = "value"].v[1]

\* An object with the five fields of the schema.
WellFormedItem(item) ==
    /\ item.k = "object"
    /\ DOMAIN item.v = {"text", "pii_type", "confidence", "start_position", "end_position"}

\* The array of objects the prompt asks for.
Conforms(v) ==
    /\ v.k = "array"
    /\ \A j \in 1..Len(v.v) : WellFormedItem(v.v[j])

\* The entity an item stands for when its pii_type is a category identifier.
EntityOf(item) ==
    PIIEntity(item.v.text, item.v.pii_type, item.v.confidence,
              item.v.start_position, item.v.end_position)

\* The entities of the items of items whose pii_type is a category
\* identifier, in order.
RECURSIVE EntitiesOfKnown(_)
EntitiesOfKnown(items) ==
    IF items = <<>> THEN <<>>
    ELSE IF items[1].v.pii_type \in PIIType
         THEN <<EntityOf(items[1])>> \o EntitiesOfKnown(Tail(items))
         ELSE EntitiesOfKnown(Tail(items))

\* C5: an item whose pii_type is one of the twelve category identifiers the
\* prompt lists (SSN, EMAIL, ..., URL) is accepted and yields a PIIEntity of
\* that category.
C5_PromptIdentifiersAccepted ==
    (Carried /\ Conforms(ValueIn(ai_content[1]))) =>
        \A j \in 1..Len(ValueIn(ai_content[1]).v) :
            LET item == ValueIn(ai_content[1]).v[j]
            IN  item.v.pii_type \in PIIType =>
                    /\ pc = "regex"
                    /\ \E k \in 1..Len(ai_entities) : ai_entities[k] = EntityOf(item)

\* C6: for an array of well-formed items whose pii_type is a category
\* identifier or UNKNOWN_TYPE, detect_pii_with_ai does not raise, drops exactly
\* the items of unknown type and returns every other item as an entity, in
\* response order.
C6_OnlyUnknownDropped ==
    (Carried /\ Conforms(ValueIn(ai_content[1]))
        /\ \A j \in 1..Len(ValueIn(ai_content[1]).v) :
              ValueIn(ai_content[1]).v[j].v.pii_type \in PIIType \cup {"UNKNOWN_TYPE"}) =>
        /\ pc = "regex"
        /\ error = ""
        /\ ai_entities = EntitiesOfKnown(ValueIn(ai_content[1]).v)

\* C8: for a content that is valid JSON of another shape than the schema (an
\* object, an array of non-objects, an item that lacks a field),
\* detect_pii_with_ai does not raise and returns the empty list.
C8_OtherShapesRecovered ==
    (Carried /\ ~Conforms(ValueIn(ai_content[1]))) =>
        /\ pc = "regex"
        /\ error = ""
        /\ ai_entities = <<>>

\* The merger applied to a whole list.
RECURSIVE MergeAll(_, _)
MergeAll(unique, es) ==
    IF es = <<>> THEN unique ELSE MergeAll(MergeOne(unique, es[1]), Tail(es))

\* C7: when the content cannot be parsed as JSON, detect_pii_with_ai returns
\* the empty list and raises nothing; process_document goes on, retains
\* exactly the deduplicated entities of the pattern extractor, and a run that
\* ends has written the redacted text and the report (after such a response
\* only a failing write of a file ends the run early).
C7_MalformedJsonDegrades ==
    (ai_content # <<>> /\ ai_content[1] \in MalformedContents) =>
        /\ ai_entities = <<>>
        /\ pc # "detect_ai"
        /\ pc = "raised" => error = "OSError"
        /\ pc = "merge" \/ Merged =>
              /\ regex_entities = apply_regex_patterns(text_content)
              /\ all_entities = regex_entities
        /\ Merged => unique_entities = MergeAll(<<>>, regex_entities)
        /\ pc = "done" =>
              /\ redacted_file = <<create_redacted_text(text_content, unique_entities)>>
              /\ report_file = report
              /\ report[1] \in generate_redaction_report(unique_entities)

C7_Witness ==
    /\ pc = "done"
    /\ ai_content = <<(<<Prose>>)>>
    /\ text_content = ContactText
    /\ Len(unique_entities) = 2

(***************************************************************************)
(* Properties of the pattern extractor.                                    *)
(***************************************************************************)
\* "555-123-4567"
PhoneNumberText == <<"5", "5", "5", "-", "1", "2", "3", "-", "4", "5", "6", "7">>

Extracted == pc \in {"merge", "redact"}

\* C9: on "Contact me at jane@example.com or 555-123-4567." the pattern
\* extractor returns exactly two entities, an EMAIL with the text
\* jane@example.com and a PHONE with the text 555-123-4567, each with
\* confidence 0.8, and no SSN, credit card or IP address.
C9_ContactExample ==
    (Extracted /\ text_content = ContactText) =>
        /\ Len(regex_entities) = 2
        /\ \E j \in 1..2 :
              /\ regex_entities[j].pii_type = "EMAIL"
              /\ regex_entities[j].text = EmailText
              /\ regex_entities[j].confidence = 8000
        /\ \E j \in 1..2 :
              /\ regex_entities[j].pii_type = "PHONE"
              /\ regex_entities[j].text = PhoneNumberText
              /\ regex_entities[j].confidence = 8000
        /\ \A j \in 1..2 :
              regex_entities[j].pii_type \notin {"SSN", "CREDIT_CARD", "IP_ADDRESS"}

C9_Witness ==
    /\ pc = "merge"
    /\ text_content = ContactText
    /\ Spans(regex_entities) = <<(<<14, 30>>), (<<34, 46>>)>>

\* C10: apply_regex_patterns raises nothing and sends no request; every
\* entity it returns has confidence 0.8 and one of the categories SSN, EMAIL,
\* PHONE, CREDIT_CARD, IP_ADDRESS; for the empty text, and for a text that
\* offers nothing to match (no digit and no @), it returns the empty list.
C10_PatternExtractorTotal ==
    Extracted =>
        /\ error = ""
        /\ requests_sent = [submit |-> 0, chat |-> 0]
        /\ \A j \in 1..Len(regex_entities) :
              /\ regex_entities[j].confidence = 8000
              /\ regex_entities[j].pii_type
                    \in {"SSN", "EMAIL", "PHONE", "CREDIT_CARD", "IP_ADDRESS"}
        /\ text_content = <<>> => regex_entities = <<>>
        /\ (\A p \in 1..Len(text_content) : text_content[p] \notin UnicodeDigit \cup {"@"})
              => regex_entities = <<>>

C10_Witness ==
    /\ pc = "merge"
    /\ Len(regex_entities) = 2
    /\ regex_entities[1].pii_type = "SSN"
    /\ regex_entities[2].pii_type = "PHONE"

C10_WitnessEmpty ==
    /\ pc = "redact"
    /\ text_content = PlainText
    /\ regex_entities = <<>>

(***************************************************************************)
(* Properties of the report's counts and average.                          *)
(***************************************************************************)
\* The number of the entities es of the category m.
CountOfType(es, m) == Cardinality({j \in 1..Len(es) : es[j].pii_type = m})

\* The sum of the counts of by_type over the keys in keys.
RECURSIVE SumCounts(_, _)
SumCounts(by_type, keys) ==
    IF keys = {} THEN 0
    ELSE LET v == CHOOSE x \in keys : TRUE
         IN  by_type[v] + SumCounts(by_type, keys \ {v})

\* C11: total_redactions is the length of the entity sequence, the counts of
\* by_type add up to total_redactions, and by_type has, for every category,
\* the number of the entities of that category (no key for a category without
\* entities).
C11_ReportCounts ==
    report # <<>> =>
        /\ report[1].total_redactions = Len(unique_entities)
        /\ SumCounts(report[1].by_type, DOMAIN report[1].by_type)
              = report[1].total_redactions
        /\ \A m \in PIIType :
              IF CountOfType(unique_entities, m) = 0
              THEN PIITypeValue[m] \notin DOMAIN report[1].by_type
              ELSE /\ PIITypeValue[m] \in DOMAIN report[1].by_type
                   /\ report[1].by_type[PIITypeValue[m]] = CountOfType(unique_entities, m)

C11_Witness ==
    /\ pc = "save_report"
    /\ Len(unique_entities) = 2
    /\ unique_entities[1].pii_type = "SSN"
    /\ unique_entities[2].pii_type = "SSN"
    /\ report[1].by_type["Social Security Number"] = 2

\* C12: for a non-empty entity sequence average_confidence is a multiple of
\* 0.001 and no other multiple of 0.001 is nearer to the mean of the
\* confidences; for the empty sequence it is 0 and the report is returned
\* (no division is made).
C12_AverageConfidence ==
    /\ report # <<>> =>
           LET total == SumConfidence(unique_entities)
               count == Len(unique_entities)
               avg   == report[1].average_confidence
           IN  IF count = 0 THEN avg = 0
               ELSE /\ avg % 10 = 0
                    /\ 2 * Abs(avg * count - total) <= 10 * count
    /\ pc = "save_report" => report # <<>> /\ error = ""

C12_Witness ==
    /\ pc = "save_report"
    /\ Len(unique_entities) = 2
    /\ unique_entities[1].confidence = 8126
    /\ unique_entities[2].confidence = 8125
    /\ report[1].average_confidence = 8130

\* The report of the empty sequence.
C12_WitnessEmpty ==
    /\ pc = "save_report"
    /\ unique_entities = <<>>
    /\ report[1].average_confidence = 0

(***************************************************************************)
(* The redactor on arbitrary integer offsets.                              *)
(***************************************************************************)
\* order lists the indices of es by descending start_position, entities with
\* the same start_position in the order they have in es.
IsSpliceOrder(order, es) ==
    /\ Len(order) = Len(es)
    /\ {order[i] : i \in 1..Len(order)} = 1..Len(es)
    /\ \A i, j \in 1..Len(order) :
          i < j =>
              \/ es[order[i]].start_position > es[order[j]].start_position
              \/ /\ es[order[i]].start_position = es[order[j]].start_position
                 /\ order[i] < order[j]

\* The text after the splices of es[order[1]], es[order[2]], ... in that order.
RECURSIVE SplicedInOrder(_, _, _, _)
SplicedInOrder(text, es, order, k) ==
    IF k > Len(order) THEN text
    ELSE SplicedInOrder(Splice(text, es[order[k]], Redaction(es[order[k]])), es, order, k + 1)

\* "jane@[REDACTED-U[REDACTED-URL][REDACTED-URL]"
WildRedacted ==
    <<"j", "a", "n", "e", "@", "[", "R", "E", "D", "A", "C", "T", "E", "D", "-", "U">>
        \o <<"[", "R", "E", "D", "A", "C", "T", "E", "D", "-", "U", "R", "L", "]">>
        \o <<"[", "R", "E", "D", "A", "C", "T", "E", "D", "-", "U", "R", "L", "]">>

\* C13: for every entity sequence with integer offsets, overlapping, nested and
\* coinciding spans and offsets outside the text included, create_redacted_text
\* returns a string, and that string is the result of the splices made one
\* after the other by descending start_position.
C13_RedactorTotal ==
    /\ pc = "redact" =>
          LET returned == create_redacted_text(text_content, unique_entities)
          IN  \A p \in 1..Len(returned) : returned[p] \in STRING
    /\ Redacted =>
          /\ error = ""
          /\ \A p \in 1..Len(redacted_text) : redacted_text[p] \in STRING
          /\ \E order \in [1..Len(unique_entities) -> 1..Len(unique_entities)] :
                /\ IsSpliceOrder(order, unique_entities)
                /\ redacted_text = SplicedInOrder(text_content, unique_entities, order, 1)
          /\ (text_content = EmailText
                  /\ Spans(unique_entities) = <<(<<5, 40>>), (<<-3, 5>>)>>)
                => redacted_text = WildRedacted

C13_Witness ==
    /\ pc = "save_redacted"
    /\ text_content = EmailText
    /\ Spans(unique_entities) = <<(<<5, 40>>), (<<-3, 5>>)>>
    /\ redacted_text = WildRedacted

(***************************************************************************)
(* The fields of the entities a pipeline run retains.                      *)
(***************************************************************************)
\* The entities of a list the extractors returned, or that the merger built
\* and process_document passes on.
Extractors == pc \in {"merge", "redact", "save_redacted", "report", "save_report", "done"}

\* C14: every entity process_document passes to the redactor and to the
\* report generator, from the AI extractor or from the pattern extractor, has
\* 0 <= start_position < end_position <= len(text_content).
C14_OffsetsWithinText ==
    Merged => \A j \in 1..Len(unique_entities) : ValidSpan(unique_entities[j], text_content)

\* The part of it that holds: the entities of the pattern extractor lie in
\* the text.
PatternOffsetsWithinText ==
    Extractors => \A j \in 1..Len(regex_entities) : ValidSpan(regex_entities[j], text_content)

\* C15: every retained entity has a confidence in [0.0, 1.0], and so has the
\* report's average_confidence.
C15_ConfidenceInUnitInterval ==
    /\ Merged => \A j \in 1..Len(unique_entities) :
                     unique_entities[j].confidence \in 0..10000
    /\ report # <<>> => report[1].average_confidence \in 0..10000

(***************************************************************************)
(* The entities after their creation.                                      *)
(***************************************************************************)
\* e is one of the elements of es.
IsIn(e, es) == \E j \in 1..Len(es) : es[j] = e

\* The lists of the extractors and the list of the merger are complete.
AfterExtraction == pc \in {"merge", "redact", "save_redacted", "report", "save_report", "done"}

\* C16: no step of the merger, of create_redacted_text or of
\* generate_redaction_report changes an entity or a list it receives: the
\* lists of the extractors stay as they were returned, the retained list only
\* grows, by an unchanged entity of all_entities, and stays as it is once the
\* merger has ended.  In the result and in the report every position is the
\* pair of offsets an extractor assigned, and the span of a pattern entity
\* still holds the entity's text in the original extracted text.
C16_EntitiesNotMutated ==
    /\ [][AfterExtraction =>
              /\ ai_entities' = ai_entities
              /\ regex_entities' = regex_entities
              /\ all_entities' = all_entities
              /\ text_content' = text_content]_vars
    /\ [][pc = "merge" =>
              \/ unique_entities' = unique_entities
              \/ unique_entities' = Append(unique_entities, all_entities[merge_k])]_vars
    /\ [][Merged => unique_entities' = unique_entities]_vars
    /\ [](pc = "done" =>
              /\ result[1].pii_entities = unique_entities
              /\ all_entities = ParseAIContent(ai_content[1]).entities
                                    \o apply_regex_patterns(text_content)
              /\ \A j \in 1..Len(unique_entities) :
                    LET e == result[1].pii_entities[j]
                    IN  /\ IsIn(e, all_entities)
                        /\ result[1].redaction_summary.entities[j].position
                              = IntToStr(e.start_position) \o <<"-">>
                                    \o IntToStr(e.end_position)
                        /\ IsIn(e, regex_entities) =>
                              SubSeq(text_content, e.start_position + 1, e.end_position)
                                  = e.text)

\* The phone number of ContactText keeps its offsets 34 and 46, while in the
\* redacted text its placeholder ends at 50.
C16_Witness ==
    /\ pc = "done"
    /\ text_content = ContactText
    /\ ai_entities = <<>>
    /\ Spans(result[1].pii_entities) = <<(<<14, 30>>), (<<34, 46>>)>>
    /\ result[1].redaction_summary.entities[2].position = <<"3", "4", "-", "4", "6">>
    /\ SubSeq(redacted_text, 35, 50) = Redaction([pii_type |-> "PHONE"])

(***************************************************************************)
(* The polling loop of analyze_document.                                   *)
(***************************************************************************)
TerminalStatuses == {"succeeded", "failed"}

TimeoutError == "RuntimeError: Timeout waiting for document analysis"

\* The step is a poll whose response arrived.
Polled == polls' = polls + 1 /\ error' # "HTTPError"

\* C17: after a successful submit analyze_document ends, with its result or
\* with an error, and issues at most 30 polls, none of them after a terminal
\* status.  The poll that reports succeeded returns the result, the poll that
\* reports failed raises, both without a delay; a poll that reports another
\* status is followed by one delay; and when 30 polls have reported no
\* terminal status the timeout error is raised, and only then.
C17_PollingBounded ==
    /\ [](polls <= 30)
    /\ [][polls' = polls + 1 => pc = "poll" /\ status \notin TerminalStatuses]_vars
    /\ [][(Polled /\ status' = "succeeded") =>
              pc' = "analyzed" /\ analysis_result' # <<>> /\ sleeps' = sleeps]_vars
    /\ [][(Polled /\ status' = "failed") =>
              /\ pc' = "raised"
              /\ error' = "RuntimeError: Document analysis failed"
              /\ sleeps' = sleeps]_vars
    /\ [][(Polled /\ status' \notin TerminalStatuses) =>
              pc' = "poll" /\ sleeps' = sleeps + 1]_vars
    /\ [][sleeps' = sleeps + 1 => Polled /\ status' \notin TerminalStatuses]_vars
    /\ [](error = TimeoutError =>
              polls = 30 /\ sleeps = 30 /\ status \notin TerminalStatuses)
    /\ (pc = "poll" /\ polls = 30) ~> (error = TimeoutError)
    /\ (pc = "poll") ~> (pc \in {"analyzed", "raised"})

C17_Witness ==
    /\ pc = "raised"
    /\ error = TimeoutError
    /\ polls = 30
    /\ sleeps = 30
    /\ status = "running"

\* The result is returned at the 30th poll.
C17_WitnessLastPoll ==
    /\ pc = "analyzed"
    /\ status = "succeeded"
    /\ polls = 30
    /\ sleeps = 29

(***************************************************************************)
(* The polling loops of the demos.                                         *)
(***************************************************************************)
\* The errors that name the timeout.
TimeoutErrors ==
    {TimeoutError, "RuntimeError: Timeout polling analyze operation"}

\* A demo has ended with an error after 30 polls without a terminal status.
DemoTimedOut ==
    /\ pc = "raised"
    /\ error # "HTTPError"
    /\ polls = 30
    /\ sleeps = 30

\* C18: when all 30 polls of a demo loop return a non-terminal status, the
\* caller receives an error that names the timeout, and no failed analysis is
\* reported by an error of that kind.
C18_DemoTimeoutExplicit ==
    /\ DemoTimedOut => error \in TimeoutErrors
    /\ (pc = "raised" /\ status = "failed") => error \notin TimeoutErrors

\* The part that holds: the timeout error of demo_docintel_summarize.py is
\* raised after 30 polls without a terminal status, and only then.
DocintelTimeoutExplicit ==
    error = "RuntimeError: Timeout polling analyze operation" =>
        polls = 30 /\ sleeps = 30 /\ status \notin TerminalStatuses

(***************************************************************************)
(* The configuration check of __init__.                                    *)
(***************************************************************************)
\* One of the five variables is unset or empty.
Unconfigured(env) ==
    \E n \in RequiredNames : n \notin DOMAIN env \/ env[n] = <<>>

AssertionErrors ==
    {"AssertionError: Set AZURE_DOCINTEL_ENDPOINT and AZURE_DOCINTEL_KEY",
     "AssertionError: Set Azure OpenAI environment variables"}

\* C19: when, after load_dotenv, one of the five variables is unset or empty,
\* the construction fails with the error of an assert and no agent exists;
\* a request is issued only by a constructed agent, so none before the
\* failure.
C19_MissingConfigFailsFast ==
    /\ (pc # "init" /\ Unconfigured(environ)) =>
          pc = "raised" /\ error \in AssertionErrors /\ agent = <<>>
    /\ error \in AssertionErrors => requests_sent = [submit |-> 0, chat |-> 0] /\ polls = 0
    /\ requests_sent # [submit |-> 0, chat |-> 0] => agent # <<>>

C19_Witness ==
    /\ pc = "raised"
    /\ DOMAIN environ = RequiredNames \ {"AZURE_OPENAI_DEPLOYMENT"}
    /\ \A n \in DOMAIN environ : environ[n] \notin {<<>>, <<"/">>}
    /\ error = "AssertionError: Set Azure OpenAI environment variables"
    /\ requests_sent = [submit |-> 0, chat |-> 0]

(***************************************************************************)
(* The requests of a pipeline run.                                         *)
(***************************************************************************)
\* C20: a run issues the submit request and the chat-completion request at
\* most once each.  An HTTP error of the submit, of a status poll or of the
\* chat completion is raised by the step that issued the request and ends
\* the run: no step follows, the steps behind the failed request have not
\* run, and neither the redacted text nor the report has been written.
C20_NoRetryNoWrite ==
    /\ [](requests_sent.submit <= 1 /\ requests_sent.chat <= 1)
    /\ [][error # "HTTPError"]_vars
    /\ [][(error = "" /\ error' = "HTTPError") =>
              \/ pc = "submit" /\ requests_sent'.submit = requests_sent.submit + 1
              \/ pc = "poll" /\ polls' = polls + 1
              \/ pc = "detect_ai" /\ requests_sent'.chat = requests_sent.chat + 1]_vars
    /\ [](error = "HTTPError" =>
              /\ pc = "raised"
              /\ redacted_file = <<>>
              /\ report_file = <<>>
              /\ result = <<>>
              /\ ai_entities = <<>> /\ regex_entities = <<>> /\ all_entities = <<>>
              /\ redacted_text = <<>> /\ report = <<>>
              /\ requests_sent.chat = 0 => text_content = <<>> /\ ai_content = <<>>
              /\ polls = 0 /\ requests_sent.chat = 0 => analysis_result = <<>>)

\* The chat completion fails after the document has been analysed.
C20_Witness ==
    /\ pc = "raised"
    /\ error = "HTTPError"
    /\ requests_sent = [submit |-> 1, chat |-> 1]
    /\ text_content = ContactText
    /\ redacted_file = <<>>
    /\ report_file = <<>>

(***************************************************************************)
(* The two files process_document writes.                                  *)
(***************************************************************************)
\* The run failed after the redacted document was saved.
FailedBetweenWrites ==
    /\ pc = "raised"
    /\ redacted_file # <<>>

\* C21: in every run the redacted text is written before the report, and the
\* report only when the write of the redacted text has completed; each file is
\* written at most once, with the redacted text and the report of the run; a
\* run that fails after the first write leaves the redacted file without a
\* report, and nothing is written afterwards.
C21_RedactedBeforeReport ==
    /\ [](Len(redacted_file) <= 1 /\ Len(report_file) <= 1)
    /\ [](report_file # <<>> => redacted_file # <<>>)
    /\ [][redacted_file' # redacted_file =>
              /\ redacted_file = <<>>
              /\ report_file = <<>>
              /\ redacted_file' = <<redacted_text>>
              /\ report_file' = report_file]_vars
    /\ [][report_file' # report_file =>
              /\ redacted_file = <<redacted_text>>
              /\ report_file = <<>>
              /\ report_file' = <<report[1]>>
              /\ redacted_file' = redacted_file]_vars
    /\ [](FailedBetweenWrites =>
              /\ redacted_file = <<redacted_text>>
              /\ report_file = <<>>
              /\ result = <<>>)
    /\ [][pc = "raised" => UNCHANGED <<redacted_file, report_file>>]_vars

\* The write of the report failed: the redacted document of the Contact
\* example is saved, its report is not.
C21_Witness ==
    /\ FailedBetweenWrites
    /\ error = "OSError"
    /\ text_content = ContactText
    /\ Len(redacted_file) = 1
    /\ report # <<>>
    /\ report_file = <<>>

(***************************************************************************)
(* The fenced code block around the array.                                 *)
(***************************************************************************)
SetMax(S) == CHOOSE x \in S : \A y \in S : x >= y

\* The text a fenced content wraps: what stands between its opening fence,
\* the word json behind it included, and its closing fence, without the white
\* space at both ends.
Unwrapped(content) ==
    LET opener == SetMin(FenceAt(content))
        closer == SetMax(FenceAt(content))
        start  == IF content[opener + 1].k = "json" THEN opener + 2 ELSE opener + 1
    IN  StripTokens(SubSeq(content, start, closer - 1))

\* The response has arrived and its content is an array in a fenced block.
FencedArrived == ai_content # <<>> /\ ai_content[1] \in FencedContents

\* detect_pii_with_ai has ended as the parse of content ends.
EndedAs(parsed) ==
    IF parsed.exc = ""
    THEN pc = "regex" /\ error = "" /\ ai_entities = parsed.entities
    ELSE pc = "raised" /\ error = parsed.exc

\* C22: for a content that wraps a JSON array in a fenced code block,
\* detect_pii_with_ai hands json.loads the text of the array, the fence
\* stripped, and ends as it ends for the bare array: with the same entities.
C22_FenceStripped ==
    FencedArrived =>
        /\ StripTokens(RemoveCodeBlockMarkers(StripTokens(ai_content[1])))
               = Unwrapped(ai_content[1])
        /\ EndedAs(ParseAIContent(Unwrapped(ai_content[1])))
        /\ JsonLoads(Unwrapped(ai_content[1])).value.k = "array"

\* The same for the arrays that hold no fence in a string: it holds.
FenceFreeArrayUnwrapped ==
    (FencedArrived /\ Len(Unwrapped(ai_content[1])) = 1) =>
        /\ StripTokens(RemoveCodeBlockMarkers(StripTokens(ai_content[1])))
               = Unwrapped(ai_content[1])
        /\ EndedAs(ParseAIContent(Unwrapped(ai_content[1])))
        /\ ai_entities = ConvertItems(ValueIn(ai_content[1]).v, 1, <<>>).entities

\* A fenced array of two items has arrived and both are returned.
FenceFreeArrayReturned ==
    /\ FencedArrived
    /\ ai_content[1] = FencedJsonText(<<JsonText([k |-> "array",
                           v |-> <<ItemAt("Email Address", 9500, 14, 30),
                                   ItemAt("URL", 6000, 30, 40)>>])>>)
    /\ Len(ai_entities) = 2

(***************************************************************************)
(* The characters of the original text in the redacted text.               *)
(***************************************************************************)
\* For every character of the redacted text the offset (1-based) of the
\* character of the original text it is, or 0 when a placeholder brought it:
\* the splices of create_redacted_text, applied to offsets instead of
\* characters.
Origins(text, es) ==
    LET sorted_entities == SortedByStartDesc(es)
    IN  SpliceAll([j \in 1..Len(text) |-> j], sorted_entities,
                  [k \in 1..Len(sorted_entities) |->
                      [j \in 1..Len(Redaction(sorted_entities[k])) |-> 0]], 1)

\* The character at offset p (1-based) lies in the span of an entity of es.
Covered(p, es) ==
    \E j \in 1..Len(es) : es[j].start_position < p /\ p <= es[j].end_position

\* The offsets of the characters outside every span, in order.
RECURSIVE Uncovered(_, _, _)
Uncovered(text, es, p) ==
    IF p > Len(text) THEN <<>>
    ELSE IF Covered(p, es) THEN Uncovered(text, es, p + 1)
    ELSE <<p>> \o Uncovered(text, es, p + 1)

IsOriginal(o) == o # 0

\* Two retained entities share a character.
SomeOverlap(es) ==
    \E i, j \in 1..Len(es) : i # j /\ ~DisjointSpans(es[i], es[j])

\* C23: after the merger and the redactor, for retained entities with valid
\* offsets, overlapping and nested ones included, no character of the
\* original text that lies in the span of a retained entity is in the
\* redacted text: the characters of the original text in it are those outside
\* every retained span, in order.
C23_NoCoveredCharacterLeft ==
    (pc = "save_redacted"
        /\ \A j \in 1..Len(unique_entities) : ValidSpan(unique_entities[j], text_content)) =>
        LET origins == Origins(text_content, unique_entities)
        IN  /\ Len(origins) = Len(redacted_text)
            /\ \A p \in 1..Len(origins) :
                  IsOriginal(origins[p]) =>
                      /\ redacted_text[p] = text_content[origins[p]]
                      /\ ~Covered(origins[p], unique_entities)
            /\ SelectSeq(origins, IsOriginal) = Uncovered(text_content, unique_entities, 1)

\* The same for retained entities of which no two share a character: it holds.
DisjointCoveredCharactersRemoved ==
    (pc = "save_redacted" /\ ~SomeOverlap(unique_entities)) =>
        LET origins == Origins(text_content, unique_entities)
        IN  /\ \A p \in 1..Len(origins) :
                  IsOriginal(origins[p]) => ~Covered(origins[p], unique_entities)
            /\ SelectSeq(origins, IsOriginal) = Uncovered(text_content, unique_entities, 1)

\* "Contact me at [REDACTED-EMAIL]example.com or [REDACTED-PHONE]."
NameInEmailRedacted ==
    SubSeq(ContactText, 1, 14) \o Redaction([pii_type |-> "EMAIL"])
        \o SubSeq(ContactText, 20, 34) \o Redaction([pii_type |-> "PHONE"]) \o <<".">>

\* The name [14,18) and the email address [14,30) are retained, and the
\* redacted text keeps example.com of the address.
NameInEmailLeaks ==
    /\ pc = "save_redacted"
    /\ Spans(unique_entities) = <<(<<14, 18>>), (<<14, 30>>), (<<34, 46>>)>>
    /\ redacted_text = NameInEmailRedacted

(***************************************************************************)
(* The duplicate test of the merger.                                       *)
(***************************************************************************)
\* The distance of two offsets.
Distance(a, b) == IF a < b THEN b - a ELSE a - b

\* The two entities are 5 or more characters apart at their starts or at
\* their ends.
FarApart(e1, e2) ==
    \/ Distance(e1.start_position, e2.start_position) >= 5
    \/ Distance(e1.end_position, e2.end_position) >= 5

\* The entity e is in the list es.
Retains(es, e) == \E j \in 1..Len(es) : es[j] = e

\* The merger is given a list that starts with entities of the two spans.
StartsWith(span1, span2) ==
    /\ Len(all_entities) >= 2
    /\ Spans(SubSeq(all_entities, 1, 2)) = <<span1, span2>>

C24_WitnessExactlyFive ==
    /\ pc = "redact"
    /\ StartsWith(<<10, 12>>, <<15, 17>>)
    /\ SubSeq(unique_entities, 1, 2) = SubSeq(all_entities, 1, 2)

(***************************************************************************)
(* AI entities and pattern entities in the merger.                         *)
(***************************************************************************)
\* The entities the merger retains of the AI entities alone.
RetainedOfAI == MergeAll(<<>>, ai_entities)

\* The AI entity a and the pattern entity p are within the duplicate
\* threshold of each other.
WithinThreshold(a, p) == ~FarApart(a, p)

\* C25 as stated: whenever an AI entity and a pattern entity are within the
\* duplicate threshold of each other, the AI one is retained and the pattern
\* one is not.
C25_AIEntityRetained ==
    Merged =>
        \A i \in 1..Len(ai_entities) : \A j \in 1..Len(regex_entities) :
            WithinThreshold(ai_entities[i], regex_entities[j]) =>
                /\ Retains(unique_entities, ai_entities[i])
                /\ ~Retains(unique_entities, regex_entities[j])

\* C25, amended: the retained list starts with the entities the merger
\* retains of the AI entities alone, unchanged in category and confidence,
\* and no step over a pattern entity removes or changes one of them; a
\* pattern entity within the duplicate threshold of a retained AI entity is
\* not retained, also when the confidence of the AI entity is below 0.8; a
\* pattern entity that is near no retained AI entity and no retained pattern
\* entity is retained, also when it is near an AI entity that was dropped.
C25_RetainedAIEntityWins ==
    /\ [](Merged =>
            /\ SubSeq(unique_entities, 1, Len(RetainedOfAI)) = RetainedOfAI
            /\ \A j \in 1..Len(regex_entities) :
                  (\E i \in 1..Len(RetainedOfAI) :
                        WithinThreshold(RetainedOfAI[i], regex_entities[j]))
                      => \A k \in (Len(RetainedOfAI) + 1)..Len(unique_entities) :
                            unique_entities[k] # regex_entities[j]
            /\ \A j \in 1..Len(regex_entities) :
                  (\A k \in 1..Len(unique_entities) :
                        unique_entities[k] # regex_entities[j])
                      => \E k \in 1..Len(unique_entities) :
                            WithinThreshold(unique_entities[k], regex_entities[j]))
    /\ [][(pc = "merge" /\ merge_k > Len(ai_entities)) =>
              SubSeq(unique_entities', 1, Len(RetainedOfAI)) = RetainedOfAI]_vars

\* The AI entity BANK_ACCOUNT [33,46) of confidence 0.5 is retained, the phone
\* number [34,46) of the patterns is not.
C25_Witness ==
    /\ pc = "redact"
    /\ ai_entities = <<EntityAt("BANK_ACCOUNT", 5000, 33, 46)>>
    /\ Len(regex_entities) = 2
    /\ regex_entities[2].pii_type = "PHONE"
    /\ unique_entities = <<ai_entities[1], regex_entities[1]>>

\* The AI entity [33,46) was dropped as a duplicate of the AI entity [29,42),
\* and the phone number [34,46), near [33,46) only, is retained.
C25_WitnessDroppedAI ==
    /\ pc = "redact"
    /\ Spans(ai_entities) = <<(<<29, 42>>), (<<33, 46>>)>>
    /\ Spans(unique_entities) = <<(<<29, 42>>), (<<14, 30>>), (<<34, 46>>)>>

(***************************************************************************)
(* The retained list during and after the merger loop.                     *)
(***************************************************************************)
\* u is a subsequence of a: its elements are elements of a, in the order of a.
RECURSIVE IsSubsequence(_, _)
IsSubsequence(u, a) ==
    IF u = <<>> THEN TRUE
    ELSE IF a = <<>> THEN FALSE
    ELSE IF u[1] = a[1] THEN IsSubsequence(Tail(u), Tail(a))
    ELSE IsSubsequence(u, Tail(a))

\* No two entities of es are duplicates of each other.
PairwiseFarApart(es) ==
    \A i, j \in 1..Len(es) : i # j => FarApart(es[i], es[j])

\* The merger loop is running or has ended.
InOrAfterMerge == pc = "merge" \/ Merged

\* C26: at every step of the merger loop and at its end the retained list is
\* a subsequence, in input order, of the entities the loop has visited, no
\* two retained entities are within the duplicate threshold of each other,
\* and the merger applied to the retained list returns it unchanged.
C26_RetainedListInvariant ==
    InOrAfterMerge =>
        /\ IsSubsequence(unique_entities, SubSeq(all_entities, 1, merge_k - 1))
        /\ IsSubsequence(unique_entities, ai_entities \o regex_entities)
        /\ PairwiseFarApart(unique_entities)
        /\ MergeAll(<<>>, unique_entities) = unique_entities

\* The loop has visited three of four entities and dropped one of them.
C26_Witness ==
    /\ pc = "merge"
    /\ merge_k = 4
    /\ Len(unique_entities) = 2
    /\ Len(all_entities) = 4

\* The loop has ended with fewer entities than it was given.
C26_WitnessFinal ==
    /\ pc = "redact"
    /\ Len(all_entities) = 4
    /\ Len(unique_entities) = 3
    /\ unique_entities[3].pii_type = "PHONE"

(***************************************************************************)
(* The order of the list given to the redactor.                            *)
(***************************************************************************)
\* The ways to reorder a list of n elements.
Reorderings(n) ==
    {f \in [1..n -> 1..n] : \A i, j \in 1..n : i # j => f[i] # f[j]}

\* The list es in the order f.
Reordered(es, f) == [j \in 1..Len(es) |-> es[f[j]]]

\* C27: for entities with valid offsets and pairwise disjoint spans, every
\* reordering of the list gives the redacted text the list itself gives.
C27_OrderIndependent ==
    (Redacted /\ DisjointValid(unique_entities, text_content)) =>
        \A f \in Reorderings(Len(unique_entities)) :
            create_redacted_text(text_content, Reordered(unique_entities, f))
                = redacted_text

\* The phone span ahead of the SSN span gives the text the other order gives.
C27_Witness ==
    /\ pc = "save_redacted"
    /\ text_content = SsnPhoneText
    /\ unique_entities = <<PhoneSpan, SsnSpan>>
    /\ redacted_text = create_redacted_text(SsnPhoneText, <<SsnSpan, PhoneSpan>>)
    /\ redacted_text = SsnPhoneRedacted

(***************************************************************************)
(* The summarization request of demo_docintel_summarize.                   *)
(***************************************************************************)
\* The run of demo_docintel_summarize has ended.
DocintelEnded == pc \in {"docintel_done", "raised"}

\* C28: in demo_docintel_summarize the request to the chat completion is
\* issued only after the analysis reached the status succeeded, and a run
\* whose analysis has failed ends without such a request.
C28_SummarizeOnlyAfterSucceeded ==
    /\ requests_sent.chat > 0 => status = "succeeded"
    /\ (DocintelEnded /\ status = "failed") => requests_sent.chat = 0

\* The part that holds: the request is issued once, after analyze_document
\* has returned the response of a terminal status, and never after an error
\* of analyze_document.
SummarizeAfterAnalysisReturned ==
    /\ requests_sent.chat <= 1
    /\ requests_sent.chat > 0 =>
          /\ status \in {"succeeded", "failed"}
          /\ analysis_result # <<>>
          /\ error \in {"", "HTTPError"}

\* The analysis has failed and the run has ended after a summarization
\* request.
SummarizedAfterFailed ==
    /\ pc = "docintel_done"
    /\ status = "failed"
    /\ analysis_result = <<NoAnalyzeResult>>
    /\ requests_sent.chat = 1

====
